---- MODULE Spec2Model ----
(***************************************************************************)
(* Model of the booking resolution tools of petpro_agent/tools/tools.py:   *)
(* the session state (tool_context.state["tool_results"]), the remote      *)
(* store reached through PetProfessionalsAPIClient, and the tools that     *)
(* read and write them.  One professional is modelled, so the              *)
(* professional id arguments are left out.  Dates are day numbers: day 1   *)
(* is Monday 2024-01-01 and weekday(d) = (d - 1) % 7 as Python's           *)
(* datetime.weekday().  Python's None is "None" for strings and 0 for      *)
(* dates and booking ids; a missing dict key is modelled like None, which  *)
(* is how the code reads it (dict.get).                                    *)
(***************************************************************************)
EXTENDS Integers, Sequences, FiniteSets, TLC

VARIABLES
    remote_bookings,   \* the bookings held by the remote store, in creation order
    remote_customers,  \* the customers held by the remote store
    tool_results,      \* state["tool_results"] of the current session
    last,              \* observation of the last tool invocation
    HAS_FUZZY_MATCHING \* whether rapidfuzz was importable when tools.py loaded

vars == <<remote_bookings, remote_customers, tool_results, last,
          HAS_FUZZY_MATCHING>>

(***************************************************************************)
(* Bounds of the model.                                                    *)
(***************************************************************************)
MaxBookings == 2

(***************************************************************************)
(* Values.                                                                 *)
(***************************************************************************)
NoneStr == "None"
NoDate == 0
NoId == 0
PlaceholderDate == 1

Customers == {"c1", "c2"}
Pets == {"p1", "p2"}
Statuses == {"scheduled", "completed", "cancelled"}
\* the day the process was started on (config.CURRENT_DATE): a Wednesday
CURRENT_DATE == 3

\* datetime.weekday(): Monday is 0
weekday(d) == (d - 1) % 7

\* a mutant of next_saturday: the day cur itself when it is a Saturday
next_saturday_or_today(cur) == cur + ((5 - weekday(cur)) % 7)

\* the first Saturday strictly after the day cur
next_saturday(cur) ==
    LET d == (5 - weekday(cur)) % 7
    IN  cur + (IF d = 0 THEN 7 ELSE d)

\* the days a request may name: the coming Saturday and Sunday
FirstRequestDay == next_saturday(CURRENT_DATE)
LastRequestDay == FirstRequestDay + 1

Booking(id, cl, sv, rt, sd, ed, st, et, status, pets, notes) ==
    [id |-> id, clientId |-> cl, serviceId |-> sv, serviceRateId |-> rt,
     startDate |-> sd, endDate |-> ed, startTime |-> st, endTime |-> et,
     status |-> status, bookingPets |-> pets, notes |-> notes]

\* a pet as the remote store returns it; name is the name as typed
\* a mutant of Pet: the owner is left out
Pet_without_owner(id, name, breed, gender, ownerId) ==
    [id |-> id, name |-> name, breed |-> breed, gender |-> gender,
     ownerId |-> NoneStr]

Pet(id, name, breed, gender, ownerId) ==
    [id |-> id, name |-> name, breed |-> breed, gender |-> gender,
     ownerId |-> ownerId]

\* a customer as the remote store returns it.  firstName, lastName are
\* sequences of words (the string is the words joined by blanks), pets is
\* the list of the customer's pets
CustomerRecord(id, firstName, lastName, email, phone, pets) ==
    [id |-> id, firstName |-> firstName, lastName |-> lastName,
     email |-> email, phone |-> phone, pets |-> pets]

NoBooking ==
    Booking(NoId, NoneStr, NoneStr, NoneStr, NoDate, NoDate, NoneStr, NoneStr,
            NoneStr, {}, NoneStr)

\* the services of the professional: "dog walking" has no configured rate
remote_services ==
    << [id |-> "s1", name |-> "pet sitting", serviceRateId |-> "r1"],
       [id |-> "s2", name |-> "dog walking", serviceRateId |-> NoneStr] >>

ServiceRequests == {"pet sitting", "dog walking", "house cleaning"}

(***************************************************************************)
(* The session state.  Each entry of tool_results is present or absent.    *)
(***************************************************************************)
NoCustomerProfile == [present |-> FALSE, customer_id |-> NoneStr, customers |-> <<>>]
NoBookingsCache == [present |-> FALSE, full_response |-> <<>>]
NoServicesCache == [present |-> FALSE, full_response |-> <<>>, service_id |-> NoneStr]
NoServiceResult ==
    [present |-> FALSE, service_id |-> NoneStr, service_name |-> NoneStr,
     service_rate_id |-> NoneStr, service_request |-> NoneStr]
NoDateResult ==
    [present |-> FALSE, start_date |-> NoDate, end_date |-> NoDate,
     start_time |-> NoneStr, end_time |-> NoneStr]

EmptyState ==
    [get_customer_profile |-> NoCustomerProfile,
     get_bookings |-> NoBookingsCache,
     get_services |-> NoServicesCache,
     service_result |-> NoServiceResult,
     date_result |-> NoDateResult]

(***************************************************************************)
(* The observation of one tool invocation.                                 *)
(***************************************************************************)
NoArgs ==
    [start_date |-> NoDate, end_date |-> NoDate, start_time |-> NoneStr,
     end_time |-> NoneStr, notes |-> NoneStr, date_phrase |-> NoneStr]

NoDates ==
    [start_date |-> NoDate, end_date |-> NoDate, start_time |-> NoneStr,
     end_time |-> NoneStr]

Call(api, ok, id, data) == [api |-> api, ok |-> ok, id |-> id, data |-> data]

\* the position of a run of the booking workflow: the agents started and
\* completed so far, the remote calls issued, what the stages were asked
\* and the status each stage ended with
NoRun ==
    [started |-> <<>>, completed |-> <<>>, calls |-> <<>>, statuses |-> <<>>,
     fresh |-> FALSE, customer |-> NoneStr, pets |-> <<>>, request |-> NoArgs]

NoLast ==
    [run |-> NoRun, op |-> "none", args |-> NoArgs, customer_id |-> NoneStr, pet_ids |-> {},
     matched_service_id |-> NoneStr, service_name |-> NoneStr,
     service_rate_id |-> NoneStr, available_services |-> <<>>,
     earlier |-> {}, current |-> NoDate,
     calculated |-> NoDates, final |-> NoDates, cache_present |-> FALSE,
     existing |-> NoBooking, calls |-> <<>>, status |-> NoneStr,
     action_taken |-> NoneStr, booking_id |-> NoId, result_pet_ids |-> <<>>]

(***************************************************************************)
(* Helpers.                                                                *)
(***************************************************************************)
\* the first of a set of indices, 0 when the set is empty: where a loop
\* over a list stops at its first hit
FirstIndex(indices) ==
    IF indices = {} THEN 0
    ELSE CHOOSE i \in indices : \A j \in indices : i <= j

\* Python's "a or b" on optional strings and optional dates
OrStr(a, b) == IF a # NoneStr THEN a ELSE b
OrDate(a, b) == IF a # NoDate THEN a ELSE b

(***************************************************************************)
(* extract_customer_fields: customer_id is the id of the FIRST customer of *)
(* the list.                                                               *)
(***************************************************************************)
extract_customer_fields(customers) ==
    [present |-> TRUE,
     customer_id |-> IF Len(customers) > 0 THEN customers[1].id ELSE NoneStr,
     customers |-> customers]

(***************************************************************************)
(* The remote store behind PetProfessionalsAPIClient.                      *)
(***************************************************************************)
\* POST /bookings: the store assigns the id and the status of a new booking
api_create_booking(remote, data) ==
    [data EXCEPT !.id = Len(remote) + 1,
                 !.status = IF data.status = NoneStr THEN "scheduled" ELSE data.status]

\* PUT /bookings/{id}: the stored booking is replaced by the payload
api_update_booking(remote, id, data) ==
    [i \in DOMAIN remote |-> IF remote[i].id = id THEN data ELSE remote[i]]

(***************************************************************************)
(* get_bookings: fetch the bookings and, on success, replace the cached    *)
(* list.  ok is whether the remote call succeeds.                          *)
(***************************************************************************)
get_bookings(tr, remote, ok) ==
    [tr |-> IF ok
            THEN [tr EXCEPT !.get_bookings = [present |-> TRUE, full_response |-> remote]]
            ELSE tr,
     success |-> ok,
     data |-> IF ok THEN remote ELSE <<>>]

(***************************************************************************)
(* create_booking: fill clientId and serviceId from the state when the     *)
(* payload lacks them, post the booking, append the result to the cached   *)
(* list (creating the cache entry when there is none).                     *)
(***************************************************************************)
create_booking_fill(tr, payload) ==
    LET cp == tr.get_customer_profile
        sv == tr.get_services
        withClient ==
            IF cp.present /\ payload.clientId = NoneStr /\ cp.customer_id # NoneStr
            THEN [payload EXCEPT !.clientId = cp.customer_id]
            ELSE payload
    IN  IF sv.present /\ withClient.serviceId = NoneStr /\ sv.service_id # NoneStr
        THEN [withClient EXCEPT !.serviceId = sv.service_id]
        ELSE withClient

\* a create_booking that leaves the booking cache alone
create_booking_without_cache(tr, result) == tr

\* a mutant of create_booking_cache: the tool_results dictionary is made
\* anew even when the session has one
create_booking_cache_anew(tr, result) ==
    [EmptyState EXCEPT !.get_bookings =
        [present |-> TRUE, full_response |-> <<result>>]]

\* create_booking appends the new booking to the cached list
create_booking_cache(tr, result) ==
    [tr EXCEPT !.get_bookings =
        [present |-> TRUE,
         full_response |-> Append(tr.get_bookings.full_response, result)]]

create_booking(tr, remote, payload, ok) ==
    LET data == create_booking_fill(tr, payload)
        result == api_create_booking(remote, data)
    IN  [tr |-> IF ok THEN create_booking_cache(tr, result) ELSE tr,
         remote |-> IF ok THEN Append(remote, result) ELSE remote,
         success |-> ok,
         data |-> IF ok THEN result ELSE NoBooking,
         sent |-> data]

(***************************************************************************)
(* update_booking: fill the fields the payload lacks from the cached       *)
(* booking of that id, put the booking, replace the cached booking.        *)
(***************************************************************************)
update_booking_merge(tr, booking_id, payload) ==
    LET list == tr.get_bookings.full_response
        HasId(b) == b.id = booking_id
        i == IF tr.get_bookings.present
             THEN FirstIndex({k \in DOMAIN list : HasId(list[k])}) ELSE 0
        c == IF i = 0 THEN NoBooking ELSE list[i]
        merged ==
            IF i = 0 THEN payload
            ELSE Booking(IF payload.id = NoId THEN c.id ELSE payload.id,
                         OrStr(payload.clientId, c.clientId),
                         OrStr(payload.serviceId, c.serviceId),
                         OrStr(payload.serviceRateId, c.serviceRateId),
                         OrDate(payload.startDate, c.startDate),
                         OrDate(payload.endDate, c.endDate),
                         OrStr(payload.startTime, c.startTime),
                         OrStr(payload.endTime, c.endTime),
                         OrStr(payload.status, c.status),
                         IF payload.bookingPets = {}
                             THEN c.bookingPets ELSE payload.bookingPets,
                         OrStr(payload.notes, c.notes))
    IN  create_booking_fill(tr, merged)

update_booking_cache(tr, booking_id, result) ==
    LET list == tr.get_bookings.full_response
        HasId(b) == b.id = booking_id
        i == FirstIndex({k \in DOMAIN list : HasId(list[k])})
    IN  IF tr.get_bookings.present /\ i # 0
        THEN [tr EXCEPT !.get_bookings.full_response[i] = result]
        ELSE tr

update_booking(tr, remote, booking_id, payload, ok) ==
    LET data == update_booking_merge(tr, booking_id, payload)
    IN  [tr |-> IF ok THEN update_booking_cache(tr, booking_id, data) ELSE tr,
         remote |-> IF ok THEN api_update_booking(remote, booking_id, data) ELSE remote,
         success |-> ok,
         sent |-> data]

(***************************************************************************)
(* ensure_booking_exists, step by step.                                    *)
(***************************************************************************)
\* a mutant of read_customer_id: a session without customer id reads "c1"
read_customer_id_or_default(tr) ==
    IF tr.get_customer_profile.present /\ tr.get_customer_profile.customer_id # NoneStr
    THEN tr.get_customer_profile.customer_id
    ELSE "c1"

\* customer_id: extracted.customer_id of the cached customer profile
read_customer_id(tr) ==
    IF tr.get_customer_profile.present
    THEN tr.get_customer_profile.customer_id
    ELSE NoneStr

\* a mutant of read_pet_ids: the id of the first pet only
read_pet_ids_first_only(tr) ==
    IF tr.get_customer_profile.present /\ Len(tr.get_customer_profile.customers) > 0
    THEN LET pets == tr.get_customer_profile.customers[1].pets
         IN  {pets[i].id : i \in DOMAIN pets \cap {1}} \ {NoneStr}
    ELSE {}

\* pet_ids: the ids of ALL pets of the first cached customer
read_pet_ids(tr) ==
    IF tr.get_customer_profile.present /\ Len(tr.get_customer_profile.customers) > 0
    THEN LET pets == tr.get_customer_profile.customers[1].pets
         IN  {pets[i].id : i \in DOMAIN pets} \ {NoneStr}
    ELSE {}

read_service_id(tr) ==
    IF tr.service_result.present THEN tr.service_result.service_id ELSE NoneStr

read_service_rate_id(tr) ==
    IF tr.service_result.present THEN tr.service_result.service_rate_id ELSE NoneStr

\* the phrases the fallback parser understands: they contain "next weekend"
NextWeekendPhrases == {"next weekend"}

\* the dates and times of the request: the arguments, overridden by a
\* date_result of the state, else parsed from the date phrase
calculated_dates_on(current, tr, args) ==
    LET dr == tr.date_result
        fromState ==
            IF dr.present
            THEN [start_date |-> OrDate(dr.start_date, args.start_date),
                  end_date |-> OrDate(dr.end_date, args.end_date),
                  start_time |-> OrStr(dr.start_time, args.start_time),
                  end_time |-> OrStr(dr.end_time, args.end_time)]
            ELSE [start_date |-> args.start_date, end_date |-> args.end_date,
                  start_time |-> args.start_time, end_time |-> args.end_time]
    IN  IF fromState.start_date = NoDate /\ args.date_phrase \in NextWeekendPhrases
        THEN [fromState EXCEPT !.start_date = next_saturday(current),
                               !.end_date = next_saturday(current) + 1]
        ELSE fromState

\* the process computes them on the day it was started on
calculated_dates(tr, args) == calculated_dates_on(CURRENT_DATE, tr, args)

\* placeholders when there is still no start date
final_dates(calc) ==
    IF calc.start_date = NoDate
    THEN [start_date |-> PlaceholderDate, end_date |-> PlaceholderDate,
          start_time |-> "00:00", end_time |-> "23:59"]
    ELSE calc

\* a conflict test that ignores the status of the booking
booking_matches_any_status(b, customer_id, pet_ids) ==
    /\ b.clientId = customer_id
    /\ b.bookingPets = pet_ids

\* the conflict test of one cached booking
booking_matches(b, customer_id, pet_ids) ==
    /\ b.clientId = customer_id
    /\ b.bookingPets = pet_ids
    /\ b.status = "scheduled"

\* the first cached booking that matches, NoBooking when the state holds no
\* booking list or none matches
find_existing_booking(tr, customer_id, pet_ids) ==
    LET list == tr.get_bookings.full_response
        Match(b) == booking_matches(b, customer_id, pet_ids)
        i == IF tr.get_bookings.present
             THEN FirstIndex({k \in DOMAIN list : Match(list[k])}) ELSE 0
    IN  IF i = 0 THEN NoBooking ELSE list[i]

\* the re-fetched booking with the requested dates, times and notes
merge_request(existing_booking, fin, notes) ==
    LET withDates ==
            IF fin.start_date # NoDate /\ fin.end_date # NoDate
            THEN [existing_booking EXCEPT !.startDate = fin.start_date,
                                          !.endDate = fin.end_date]
            ELSE existing_booking
    IN  [withDates EXCEPT !.startTime = OrStr(fin.start_time, @),
                          !.endTime = OrStr(fin.end_time, @),
                          !.notes = OrStr(notes, @)]

\* the payload of a new booking
booking_data(customer_id, pet_ids, service_id, service_rate_id, fin, notes) ==
    Booking(NoId, customer_id, service_id, service_rate_id, fin.start_date,
            fin.end_date, fin.start_time, fin.end_time, NoneStr, pet_ids,
            IF notes = NoneStr THEN "" ELSE notes)

\* a precondition test that lets a missing rate id pass
missing_precondition_without_rate(customer_id, pet_ids, service_id, service_rate_id) ==
    IF customer_id = NoneStr \/ pet_ids = {} THEN "insufficient_data"
    ELSE IF service_id = NoneStr THEN "insufficient_data"
    ELSE "ok"

\* the preconditions read from the state, in the order they are tested:
\* the status returned for the first one that is missing, "ok" otherwise
missing_precondition(customer_id, pet_ids, service_id, service_rate_id) ==
    IF customer_id = NoneStr \/ pet_ids = {} THEN "insufficient_data"
    ELSE IF service_id = NoneStr THEN "insufficient_data"
    ELSE IF service_rate_id = NoneStr THEN "rate_missing"
    ELSE "ok"

ensure_booking_exists(tr, remote, args, okFetch, okUpdate, okCreate) ==
    LET customer_id == read_customer_id(tr)
        pet_ids == read_pet_ids(tr)
        service_id == read_service_id(tr)
        service_rate_id == read_service_rate_id(tr)
        calc == calculated_dates(tr, args)
        fin == final_dates(calc)
        existing == find_existing_booking(tr, customer_id, pet_ids)
        base == [NoLast EXCEPT !.op = "ensure_booking_exists", !.args = args,
                               !.customer_id = customer_id, !.pet_ids = pet_ids,
                               !.cache_present = tr.get_bookings.present]
        withService == [base EXCEPT !.matched_service_id = service_id,
                                    !.service_rate_id = service_rate_id]
        resolved == [withService EXCEPT !.calculated = calc, !.final = fin,
                                        !.existing = existing]
        Terminal(l, status) ==
            [tr |-> tr, remote |-> remote,
             last |-> [l EXCEPT !.status = status, !.action_taken = "error"]]
        \* the update path: re-fetch, look the booking up by id, update it
        found == existing.id # NoId
        fetch == get_bookings(tr, remote, okFetch)
        HasId(b) == b.id = existing.id
        j == IF found /\ fetch.success
             THEN FirstIndex({k \in DOMAIN fetch.data : HasId(fetch.data[k])})
             ELSE 0
        upd == update_booking(fetch.tr, remote, existing.id,
                              merge_request(fetch.data[j], fin, args.notes), okUpdate)
        callsUpdate ==
            IF ~found THEN <<>>
            ELSE <<Call("get_bookings", okFetch, NoId, NoBooking)>> \o
                 (IF j # 0
                  THEN <<Call("update_booking", okUpdate, existing.id, upd.sent)>>
                  ELSE <<>>)
        \* the create path, also taken when the update path did not succeed
        trCreate == IF ~found THEN tr ELSE IF j # 0 THEN upd.tr ELSE fetch.tr
        crt == create_booking(trCreate, remote,
                              booking_data(customer_id, pet_ids, service_id,
                                           service_rate_id, fin, args.notes),
                              okCreate)
        outcome == IF okCreate THEN "created" ELSE "error"
        missing == missing_precondition(customer_id, pet_ids, service_id,
                                        service_rate_id)
    IN  IF missing # "ok"
            THEN Terminal(withService, missing)
        ELSE IF j # 0 /\ upd.success
            THEN [tr |-> upd.tr, remote |-> upd.remote,
                  last |-> [resolved EXCEPT !.calls = callsUpdate,
                                            !.status = "updated",
                                            !.action_taken = "updated",
                                            !.booking_id = existing.id]]
        ELSE [tr |-> crt.tr, remote |-> crt.remote,
              last |-> [resolved EXCEPT
                            !.calls = callsUpdate \o
                                <<Call("create_booking", okCreate, crt.data.id, crt.sent)>>,
                            !.status = outcome,
                            !.action_taken = outcome,
                            !.booking_id = crt.data.id]]

(***************************************************************************)
(* The service stage.  Service names and requests are strings; Len, SubSeq *)
(* and \o act on their characters.                                         *)
(***************************************************************************)
\* a in b
str_in(a, b) ==
    \E o \in 0..(Len(b) - Len(a)) : SubSeq(b, o + 1, o + Len(a)) = a

UpperCase == "ABCDEFGHIJKLMNOPQRSTUVWXYZ"
LowerCase == "abcdefghijklmnopqrstuvwxyz"

lower_char(c) ==
    IF \E i \in 1..Len(UpperCase) : SubSeq(UpperCase, i, i) = c
    THEN LET i == CHOOSE i \in 1..Len(UpperCase) : SubSeq(UpperCase, i, i) = c
         IN  SubSeq(LowerCase, i, i)
    ELSE c

\* s.lower(), by halves
RECURSIVE str_lower(_)
str_lower(s) ==
    IF Len(s) <= 1 THEN lower_char(s)
    ELSE str_lower(SubSeq(s, 1, Len(s) \div 2))
             \o str_lower(SubSeq(s, Len(s) \div 2 + 1, Len(s)))

\* s.strip(), for the blank
RECURSIVE str_strip(_)
str_strip(s) ==
    IF s = "" THEN ""
    ELSE IF SubSeq(s, 1, 1) = " " THEN str_strip(Tail(s))
    ELSE IF SubSeq(s, Len(s), Len(s)) = " " THEN str_strip(SubSeq(s, 1, Len(s) - 1))
    ELSE s

\* set(s.split()): the pieces of s between two neighbouring blanks or ends
str_words(s) ==
    LET blanks == {0, Len(s) + 1} \cup {i \in 1..Len(s) : SubSeq(s, i, i) = " "}
    IN  { SubSeq(s, w[1] + 1, w[2] - 1) : w \in
            { w \in blanks \X blanks :
                /\ w[1] + 1 < w[2]
                /\ \A i \in blanks : i <= w[1] \/ i >= w[2] } }

\* the keywords of match_service_semantic, by service type, in their order
keywords ==
    << [service_type |-> "pet sitting",
        keyword_list |->
          << "pet sitting", "pet sitter", "sitting", "overnight", "overnight care",
             "watch", "watch my", "look after", "look after my",
             "care for", "care for my", "pet care", "dog sitting", "cat sitting",
             "babysit", "babysitting", "pet babysitting", "stay with", "stay with my",
             "house sit", "house sitting", "pet house sitting" >>],
       [service_type |-> "dog walking",
        keyword_list |->
          << "dog walking", "dog walker", "walk", "walk my dog",
             "take my dog for a walk", "dog walk", "take dog out", "walk the dog",
             "daily walk", "regular walk" >>],
       [service_type |-> "grooming",
        keyword_list |->
          << "grooming", "groom", "bath", "bathe", "bathe my", "wash",
             "wash my", "pet grooming", "dog grooming", "cat grooming", "nail trim",
             "nail clipping", "haircut", "hair cut", "trim" >>] >>

stop_words == {"pet", "my", "the", "a", "an", "for", "of", "with"}

MaxOf(S) == CHOOSE x \in S : \A y \in S : y <= x

\* a mutant of keyword_score: the keywords count for nothing
keyword_score_none(kw, service_name, service_request_lower) == 0

\* the score of the keywords of one service type: 500 plus ten times the
\* number of keywords from the first keyword found in the request to the end
\* of the list, when the service name contains the type
keyword_score(kw, service_name, service_request_lower) ==
    LET hit == FirstIndex({k \in DOMAIN kw.keyword_list :
                              str_in(kw.keyword_list[k], service_request_lower)})
    IN  IF str_in(kw.service_type, service_name) /\ hit # 0
        THEN 500 + (Len(kw.keyword_list) - (hit - 1)) * 10
        ELSE 0

\* the score of a service of the given name: 1000 for the name, 900 for a
\* substring, the keyword score, and under 500 ten for each common word
\* that is no stop word
score_of(name, service_request) ==
    LET service_request_lower == str_strip(str_lower(service_request))
        service_name == str_strip(str_lower(name))
        phrase == IF service_request_lower = service_name THEN 1000
                  ELSE IF \/ str_in(service_request_lower, service_name)
                          \/ str_in(service_name, service_request_lower)
                  THEN 900 ELSE 0
        semantic == MaxOf({phrase} \cup
                          { keyword_score(keywords[t], service_name,
                                          service_request_lower) :
                                t \in DOMAIN keywords })
        meaningful_common == (str_words(service_name)
                                 \cap str_words(service_request_lower)) \ stop_words
    IN  IF service_request = "" THEN 0
        ELSE IF semantic < 500 /\ meaningful_common # {}
        THEN MaxOf({semantic, Cardinality(meaningful_common) * 10})
        ELSE semantic

Service(id, name, rate) == [id |-> id, name |-> name, serviceRateId |-> rate]

\* a name of 52 words
LongName ==
    "x52 x51 x50 x49 x48 x47 x46 x45 x44 x43 x42 x41 x40 x39 x38 " \o
    "x37 x36 x35 x34 x33 x32 x31 x30 x29 x28 x27 x26 x25 x24 x23 " \o
    "x22 x21 x20 x19 x18 x17 x16 x15 x14 x13 x12 x11 x10 x09 x08 " \o
    "x07 x06 x05 x04 x03 x02 x01"

\* a request for a trim that holds the 52 words in another order
LongRequest ==
    "trim x01 x02 x03 x04 x05 x06 x07 x08 x09 x10 x11 x12 x13 x14" \o
    " x15 x16 x17 x18 x19 x20 x21 x22 x23 x24 x25 x26 x27 x28 x29" \o
    " x30 x31 x32 x33 x34 x35 x36 x37 x38 x39 x40 x41 x42 x43 x44" \o
    " x45 x46 x47 x48 x49 x50 x51 x52"

ServicePool ==
    { Service("s1", "Pet Sitting", "r1"), Service("s2", "Dog Walking", NoneStr),
      Service("s3", "Pet Grooming", "r3"), Service("s4", LongName, "r4") }

SemanticRequests ==
    { "wash my dog", "watch my dog", "Dog Walking", "dog walk", "sitting",
      "cat food", LongRequest }

\* the scores of the requests of the model against its services, computed
\* once
session_scores ==
    { <<rq, nm, score_of(nm, rq)>> :
          rq \in ServiceRequests \cup SemanticRequests,
          nm \in {remote_services[i].name : i \in DOMAIN remote_services}
                     \cup {sv.name : sv \in ServicePool} }

\* the score of a request against a name, read from the scores computed
score_in(scores, name, service_request) ==
    (CHOOSE t \in scores : t[1] = service_request /\ t[2] = name)[3]

service_score(service, service_request) ==
    score_in(session_scores, service.name, service_request)

\* the first of the highest positive scores, 0 when there is none
highest_scoring(scores) ==
    FirstIndex({k \in DOMAIN scores :
                   /\ scores[k] > 0
                   /\ \A i \in DOMAIN scores : scores[i] <= scores[k]})

\* the first service with the highest positive score, 0 when there is none
match_service_semantic(services, service_request) ==
    highest_scoring([k \in DOMAIN services |->
                        service_score(services[k], service_request)])

\* get_services with the answer of the remote: fetch the services and cache
\* them with the first service id
get_services_from(tr, remote, ok) ==
    [tr |-> IF ok
            THEN [tr EXCEPT !.get_services =
                     [present |-> TRUE, full_response |-> remote,
                      service_id |-> IF Len(remote) > 0
                                     THEN remote[1].id ELSE NoneStr]]
            ELSE tr,
     success |-> ok,
     data |-> IF ok THEN remote ELSE <<>>]

get_services(tr, ok) == get_services_from(tr, remote_services, ok)

\* the names of the services that have one
service_names(services) == [i \in DOMAIN services |-> services[i].name]

\* a mutant of service_rate_id_of: a rate id for every service
service_rate_id_or_default(matched) ==
    IF matched.serviceRateId # NoneStr THEN matched.serviceRateId ELSE "r0"

\* the id of the serviceRate of the matched service, None without one
service_rate_id_of(matched) == matched.serviceRateId

\* the answer of match_service for the service at index i, 0 for none
match_result(tr, calls, services, i) ==
    [tr |-> tr,
     calls |-> calls,
     service_id |-> IF i = 0 THEN NoneStr ELSE services[i].id,
     service_name |-> IF i = 0 THEN NoneStr ELSE services[i].name,
     service_rate_id |-> IF i = 0 THEN NoneStr
                         ELSE service_rate_id_of(services[i]),
     available_services |-> service_names(services)]

\* match_service: the cached services, else the fetched ones, matched
match_service_from(tr, remote, service_request, ok) ==
    LET cached == IF tr.get_services.present
                  THEN tr.get_services.full_response ELSE <<>>
        fetch == get_services_from(tr, remote, ok)
        services == IF cached # <<>> THEN cached ELSE fetch.data
    IN  match_result(IF cached # <<>> THEN tr ELSE fetch.tr,
                     IF cached # <<>> THEN <<>>
                     ELSE <<Call("get_services", ok, NoId, NoBooking)>>,
                     services,
                     match_service_semantic(services, service_request))

match_service(tr, service_request, ok) ==
    match_service_from(tr, remote_services, service_request, ok)

\* ensure_service_matched once the cached match is read from tr and the
\* answer m of match_service is known
service_outcome(tr, m, service_request) ==
    LET sr == tr.service_result
        base == [NoLast EXCEPT !.op = "ensure_service_matched"]
    IN  IF sr.present /\ sr.service_id # NoneStr /\ sr.service_request = service_request
        THEN [tr |-> tr,
              last |-> [base EXCEPT !.status = "found",
                                    !.matched_service_id = sr.service_id,
                                    !.service_name = sr.service_name,
                                    !.service_rate_id = sr.service_rate_id]]
        ELSE IF m.service_id = NoneStr
        THEN [tr |-> m.tr,
              last |-> [base EXCEPT !.status = "not_found", !.calls = m.calls,
                                    !.available_services = m.available_services]]
        ELSE IF m.service_rate_id = NoneStr
        THEN [tr |-> m.tr,
              last |-> [base EXCEPT !.status = "rate_missing", !.calls = m.calls,
                                    !.matched_service_id = m.service_id,
                                    !.service_name = m.service_name]]
        ELSE [tr |-> [m.tr EXCEPT !.service_result =
                         [present |-> TRUE, service_id |-> m.service_id,
                          service_name |-> m.service_name,
                          service_rate_id |-> m.service_rate_id,
                          service_request |-> service_request]],
              last |-> [base EXCEPT !.status = "matched", !.calls = m.calls,
                                    !.matched_service_id = m.service_id,
                                    !.service_name = m.service_name,
                                    !.service_rate_id = m.service_rate_id]]

\* ensure_service_matched with the answer of the remote
ensure_service_matched_from(tr, remote, service_request, ok) ==
    service_outcome(tr, match_service_from(tr, remote, service_request, ok),
                    service_request)

ensure_service_matched(tr, service_request, ok) ==
    ensure_service_matched_from(tr, remote_services, service_request, ok)

(***************************************************************************)
(* get_customer_profile: fetch the customers and cache them.               *)
(***************************************************************************)
get_customer_profile(tr, customers, ok) ==
    IF ok
    THEN [tr EXCEPT !.get_customer_profile = extract_customer_fields(customers)]
    ELSE tr

(***************************************************************************)
(* The customer stage.  A name is a sequence of words; the words of the    *)
(* model are not contained in one another, so that one name is a           *)
(* substring of another exactly when its words are a contiguous part of    *)
(* the other's.  No name (None or "") is the empty sequence.               *)
(***************************************************************************)
\* str.lower() on the words, emails and pet names of the model
lower(s) ==
    CASE s = "Alice" -> "alice"
      [] s = "A@X" -> "a@x"
      [] s = "Bella" -> "bella"
      [] s = "Bela" -> "bela"
      [] s = "Max" -> "max"
      [] s = "Rex" -> "rex"
      [] OTHER -> s

lower_words(words) == [i \in DOMAIN words |-> lower(words[i])]

\* a in b, for names
IsSubstring(a, b) ==
    \E o \in 0..(Len(b) - Len(a)) : \A i \in DOMAIN a : b[o + i] = a[i]

\* the truth value of an optional string
Truthy(s) == s \notin {NoneStr, ""}

\* f"{firstName} {lastName}".strip().lower()
customer_name_of(customer) == lower_words(customer.firstName \o customer.lastName)

\* the test match_customer applies to one customer: email, then phone, then
\* name; the name test is (customer_name and name in customer_name) or
\* customer_name in name
customer_matches(customer, email, phone, name) ==
    \/ /\ Truthy(email) /\ Truthy(customer.email)
       /\ lower(customer.email) = lower(email)
    \/ /\ Truthy(phone) /\ Truthy(customer.phone)
       /\ customer.phone = phone
    \/ /\ name # <<>>
       /\ \/ /\ customer_name_of(customer) # <<>>
             /\ IsSubstring(lower_words(name), customer_name_of(customer))
          \/ IsSubstring(customer_name_of(customer), lower_words(name))

\* match_customer: the index of the first customer that passes the test, 0
\* for None
match_customer(customers, email, phone, name) ==
    FirstIndex({k \in DOMAIN customers :
                    customer_matches(customers[k], email, phone, name)})

\* the ids the remote store gives to new customers
CustomerIds == <<"c1", "c2", "c3", "c4", "c5">>

\* POST /customers: the store assigns the id and returns the record
api_create_customer(remote, data) ==
    [data EXCEPT !.id = CustomerIds[Len(remote) + 1]]

NoCustomer == CustomerRecord(NoneStr, <<>>, <<>>, NoneStr, NoneStr, <<>>)

\* create_customer: return a cached customer with the same email or phone,
\* else post the customer and append the result to the cached list
create_customer(tr, remote, data, ok) ==
    LET cp == tr.get_customer_profile
        Same(c) == \/ Truthy(data.email) /\ c.email = data.email
                   \/ Truthy(data.phone) /\ c.phone = data.phone
        i == IF cp.present
             THEN FirstIndex({k \in DOMAIN cp.customers : Same(cp.customers[k])})
             ELSE 0
        result == api_create_customer(remote, data)
    IN  IF i # 0
        THEN [tr |-> tr, remote |-> remote, success |-> TRUE,
              data |-> cp.customers[i], calls |-> <<>>]
        ELSE [tr |-> IF ok /\ cp.present
                     THEN [tr EXCEPT !.get_customer_profile =
                              extract_customer_fields(Append(cp.customers, result))]
                     ELSE tr,
              remote |-> IF ok THEN Append(remote, result) ELSE remote,
              success |-> ok,
              data |-> IF ok THEN result ELSE NoCustomer,
              calls |-> <<Call("create_customer", ok, NoId, NoBooking)>>]

\* the record ensure_customer_exists asks the store to create
customer_data(name, email, phone) ==
    CustomerRecord(NoneStr,
                   IF name # <<>> THEN <<name[1]>> ELSE <<>>,
                   IF Len(name) > 1 THEN Tail(name) ELSE <<>>,
                   IF Truthy(email) THEN email ELSE "",
                   IF Truthy(phone) THEN phone ELSE "",
                   <<>>)

ensure_customer_exists(tr, remote, name, email, phone, okList, okCreate) ==
    LET cp == tr.get_customer_profile
        base == [NoLast EXCEPT !.op = "ensure_customer_exists",
                               !.args = [name |-> name, email |-> email,
                                         phone |-> phone],
                               !.cache_present = cp.present]
        inState == IF cp.present
                   THEN match_customer(cp.customers, email, phone, name) ELSE 0
        \* not in state: fetch the customers and match again
        trFetch == get_customer_profile(tr, remote, okList)
        listCall == <<Call("get_customer_profile", okList, NoId, NoBooking)>>
        fromApi == IF okList /\ remote # <<>>
                   THEN match_customer(remote, email, phone, name) ELSE 0
        \* not found: create
        crt == create_customer(trFetch, remote, customer_data(name, email, phone),
                               okCreate)
    IN  IF inState # 0
        THEN [tr |-> tr, remote |-> remote,
              last |-> [base EXCEPT !.status = "found",
                                    !.customer_id = cp.customers[inState].id]]
        ELSE IF fromApi # 0
        THEN [tr |-> trFetch, remote |-> remote,
              last |-> [base EXCEPT !.status = "found", !.calls = listCall,
                                    !.customer_id = remote[fromApi].id]]
        ELSE IF name = <<>> /\ ~Truthy(email) /\ ~Truthy(phone)
        THEN [tr |-> trFetch, remote |-> remote,
              last |-> [base EXCEPT !.status = "insufficient_data",
                                    !.calls = listCall]]
        ELSE [tr |-> crt.tr, remote |-> crt.remote,
              last |-> [base EXCEPT
                            !.status = IF crt.success THEN "created" ELSE "error",
                            !.calls = listCall \o crt.calls,
                            !.customer_id = crt.data.id]]

(***************************************************************************)
(* The pets stage.  A pet name is one string; the names of the model are   *)
(* Bella, Bela, Max and Rex, none of which contains another.               *)
(***************************************************************************)
\* a requested pet; breed and gender are NoneStr when the request has none
PetInfo(name, breed, gender) == [name |-> name, breed |-> breed, gender |-> gender]

\* the ids the remote store gives to new pets
PetIds == <<"p1", "p2", "p3", "p4", "p5", "p6">>

\* threshold of match_pet
FuzzyThreshold == 85

\* fuzz.ratio on lowered names: 100 for equal names, round(100 * 2*4/9) for
\* bela and bella, and a score below the threshold for every other pair of
\* the names of the model
fuzz_ratio(a, b) ==
    IF a = b THEN 100
    ELSE IF {a, b} = {"bela", "bella"} THEN 89
    ELSE 25

\* a in b, on the names of the model
name_in(a, b) == a = "" \/ a = b

\* match_pet: the index of the matching pet, 0 for None.  Exact match on
\* the lowered names first, then the best fuzzy score at or over the
\* threshold if rapidfuzz is there, then a substring in either direction
match_pet(pets, pet_name, fuzzy) ==
    LET n == lower(pet_name)
        exact == FirstIndex({k \in DOMAIN pets : lower(pets[k].name) = n})
        scored == {k \in DOMAIN pets :
                      /\ lower(pets[k].name) # ""
                      /\ fuzz_ratio(n, lower(pets[k].name)) >= FuzzyThreshold}
        best == FirstIndex({k \in scored : \A j \in scored :
                               fuzz_ratio(n, lower(pets[j].name))
                                   <= fuzz_ratio(n, lower(pets[k].name))})
        partial == FirstIndex({k \in DOMAIN pets :
                                  \/ name_in(n, lower(pets[k].name))
                                  \/ name_in(lower(pets[k].name), n)})
    IN  IF pets = <<>> \/ ~Truthy(pet_name) THEN 0
        ELSE IF exact # 0 THEN exact
        ELSE IF fuzzy /\ best # 0 THEN best
        ELSE partial

\* the pet ids in use in the remote store
UsedPetIds(remote) ==
    UNION { {remote[c].pets[k].id : k \in DOMAIN remote[c].pets} : c \in DOMAIN remote }

\* PUT /customers/{id}: the store updates the pets sent with an id, adds the
\* pets sent without one under new ids, and keeps the other pets
api_create_pet_profiles(remote, payload) ==
    LET c == FirstIndex({k \in DOMAIN remote : remote[k].id = payload.id})
        sent == payload.pets
        old == remote[c].pets
        Free(id) == id \notin UsedPetIds(remote)
        free == SelectSeq(PetIds, Free)
        Sent(k) == FirstIndex({j \in DOMAIN sent : sent[j].id = old[k].id})
        updated == [k \in DOMAIN old |->
                       IF Sent(k) = 0 THEN old[k]
                       ELSE [old[k] EXCEPT !.name = sent[Sent(k)].name,
                                           !.breed = sent[Sent(k)].breed]]
        IsNew(p) == p.id = NoneStr
        new == SelectSeq(sent, IsNew)
        created == [j \in DOMAIN new |-> [new[j] EXCEPT !.id = free[j]]]
    IN  [remote EXCEPT ![c].pets = updated \o created]

\* create_pet_profiles: the customer id of the payload, else of the state;
\* on success the customer with that id is replaced in the cached list and
\* the fields are extracted again
create_pet_profiles(tr, remote, payload, ok) ==
    LET cp == tr.get_customer_profile
        customer_id == IF Truthy(payload.id) THEN payload.id
                       ELSE read_customer_id(tr)
        data == [payload EXCEPT !.id = customer_id]
        c == FirstIndex({k \in DOMAIN remote : remote[k].id = customer_id})
        success == ok /\ Truthy(customer_id) /\ c # 0
        stored == api_create_pet_profiles(remote, data)
        i == FirstIndex({k \in DOMAIN cp.customers : cp.customers[k].id = customer_id})
        customers_list == IF i = 0 THEN cp.customers
                          ELSE [cp.customers EXCEPT ![i] = stored[c]]
    IN  [tr |-> IF success /\ cp.present
                THEN [tr EXCEPT !.get_customer_profile =
                         extract_customer_fields(customers_list)]
                ELSE tr,
         remote |-> IF success THEN stored ELSE remote,
         success |-> success,
         data |-> IF success THEN stored[c] ELSE NoCustomer,
         calls |-> <<Call("create_pet_profiles", success, NoId, data)>>]

\* a mutant of needs_update: every matched pet is written again
needs_update_always(pet_info, existing_pet) == TRUE

\* needs_update: the request has a breed and it differs from the stored one
needs_update(pet_info, existing_pet) ==
    Truthy(pet_info.breed) /\ pet_info.breed # existing_pet.breed

\* a mutant of all_pets: the updates are left out of the upsert
all_pets_created_only(pets_to_update, pets_to_create) == pets_to_create

\* all_pets: the pets of the one upsert call
all_pets(pets_to_update, pets_to_create) == pets_to_update \o pets_to_create

ensure_pets_exist(tr, remote, pets_data, fuzzy, ok) ==
    LET cp == tr.get_customer_profile
        customer_id == read_customer_id(tr)
        existing_pets == IF cp.present /\ cp.customers # <<>>
                         THEN cp.customers[1].pets ELSE <<>>
        HasName(p) == Truthy(p.name)
        named == SelectSeq(pets_data, HasName)
        idx == [i \in DOMAIN named |-> i]
        m(i) == match_pet(existing_pets, named[i].name, fuzzy)
        Matched(i) == m(i) # 0
        Unmatched(i) == m(i) = 0
        NeedsUpdate(i) == m(i) # 0 /\ needs_update(named[i], existing_pets[m(i)])
        matchedIdx == SelectSeq(idx, Matched)
        updateIdx == SelectSeq(idx, NeedsUpdate)
        createIdx == SelectSeq(idx, Unmatched)
        matched_pet_ids == [j \in DOMAIN matchedIdx |->
                               existing_pets[m(matchedIdx[j])].id]
        pets_to_update == [j \in DOMAIN updateIdx |->
                              Pet(existing_pets[m(updateIdx[j])].id,
                                  named[updateIdx[j]].name,
                                  named[updateIdx[j]].breed,
                                  named[updateIdx[j]].gender, customer_id)]
        pets_to_create == [j \in DOMAIN createIdx |->
                              Pet(NoneStr, named[createIdx[j]].name,
                                  named[createIdx[j]].breed,
                                  IF named[createIdx[j]].gender = NoneStr
                                  THEN "Male" ELSE named[createIdx[j]].gender,
                                  customer_id)]
        upsert == create_pet_profiles(tr, remote,
                      [id |-> customer_id,
                       pets |-> all_pets(pets_to_update, pets_to_create)], ok)
        updated_pets == upsert.data.pets
        ByName(i) == FirstIndex({k \in DOMAIN updated_pets :
                                    updated_pets[k].name = named[i].name})
        InResult(i) == ByName(i) # 0
        foundIdx == SelectSeq(idx, InResult)
        final_pet_ids == [j \in DOMAIN foundIdx |->
                             updated_pets[ByName(foundIdx[j])].id]
        base == [NoLast EXCEPT !.op = "ensure_pets_exist", !.args = pets_data,
                               !.cache_present = cp.present,
                               !.customer_id = customer_id]
    IN  IF ~Truthy(customer_id)
        THEN [tr |-> tr, remote |-> remote,
              last |-> [base EXCEPT !.status = "insufficient_data"]]
        ELSE IF pets_to_create = <<>> /\ pets_to_update = <<>>
        THEN [tr |-> tr, remote |-> remote,
              last |-> [base EXCEPT !.status = "found",
                                    !.result_pet_ids = matched_pet_ids]]
        ELSE IF upsert.success
        THEN [tr |-> upsert.tr, remote |-> upsert.remote,
              last |-> [base EXCEPT
                           !.status = IF pets_to_update = <<>>
                                      THEN "created" ELSE "updated",
                           !.calls = upsert.calls,
                           !.result_pet_ids = matched_pet_ids \o final_pet_ids]]
        ELSE [tr |-> tr, remote |-> remote,
              last |-> [base EXCEPT !.status = "found", !.calls = upsert.calls,
                                    !.result_pet_ids = matched_pet_ids]]

(***************************************************************************)
(* create_session_with_state: the state a new session starts with.  A      *)
(* customer id seeds a customer profile with no customers; an              *)
(* additional_state holding "tool_results" replaces that entry.            *)
(***************************************************************************)
NoAdditionalState == [tool_results |-> FALSE, value |-> EmptyState]

AdditionalStates ==
    { NoAdditionalState,
      [tool_results |-> TRUE,
       value |-> [EmptyState EXCEPT !.service_result =
                     [present |-> TRUE, service_id |-> "s2",
                      service_name |-> "dog walking",
                      service_rate_id |-> NoneStr,
                      service_request |-> "dog walking"]]],
      [tool_results |-> TRUE,
       value |-> [EmptyState EXCEPT !.date_result =
                     [present |-> TRUE, start_date |-> LastRequestDay, end_date |-> LastRequestDay,
                      start_time |-> NoneStr, end_time |-> NoneStr]]] }

create_session_with_state(customer_id, additional_state) ==
    IF additional_state.tool_results
    THEN additional_state.value
    ELSE IF customer_id # NoneStr
    THEN [EmptyState EXCEPT !.get_customer_profile =
             [present |-> TRUE, customer_id |-> customer_id, customers |-> <<>>]]
    ELSE EmptyState

(***************************************************************************)
(* Inputs.                                                                 *)
(***************************************************************************)
\* a customer with pets of the given ids and no contact data
Customer(id, pets) ==
    CustomerRecord(id, <<>>, <<>>, "", "",
                   [i \in DOMAIN pets |-> Pet(pets[i], NoneStr, NoneStr, NoneStr, id)])

\* the customer lists the remote store may hold
InitCustomers ==
    { <<Customer("c1", <<"p1", "p2">>)>>,
      <<Customer("c2", <<"p2">>), Customer("c1", <<"p1">>)>> }

\* the bookings the remote store may hold at the start: at most one
InitBookings ==
    {<<>>} \cup
    { <<Booking(1, "c1", "s1", "r1", FirstRequestDay, FirstRequestDay,
                NoneStr, NoneStr, st, Pets, "n0")>> : st \in Statuses }
    \cup
    { <<Booking(1, c, "s1", "r1", FirstRequestDay, FirstRequestDay,
                NoneStr, NoneStr, "scheduled", ps, "n0")>> :
        c \in Customers, ps \in (SUBSET Pets) \ {{}} }

Request(sd, ed, st, et, notes, phrase) ==
    [start_date |-> sd, end_date |-> ed, start_time |-> st, end_time |-> et,
     notes |-> notes, date_phrase |-> phrase]

\* the arguments of ensure_booking_exists: calculated dates, one of them
\* with times and notes; and requests that name a date phrase only
DatedRequests ==
    { Request(d, d, NoneStr, NoneStr, NoneStr, "tomorrow") : d \in {FirstRequestDay} }
    \cup { Request(d, d, "08:00", "18:00", "n1", "tomorrow") : d \in {LastRequestDay} }

PhraseRequests ==
    { Request(NoDate, NoDate, NoneStr, NoneStr, NoneStr, ph) :
        ph \in {"next weekend", "tomorrow"} }

\* the payloads of the create_booking tool: a complete one and one that
\* leaves the client, the service and the rate to the tool
ToolPayloads ==
    { Booking(NoId, "c1", "s1", "r1", FirstRequestDay, FirstRequestDay,
              NoneStr, NoneStr, NoneStr, {"p1"}, ""),
      Booking(NoId, NoneStr, NoneStr, NoneStr, FirstRequestDay, FirstRequestDay,
              NoneStr, NoneStr, NoneStr, {"p1"}, "") }

(***************************************************************************)
(* The state machine.  HAS_FUZZY_MATCHING is fixed when the module loads   *)
(* and is read by match_pet only; the specifications that never call       *)
(* match_pet start with one value of it.                                   *)
(***************************************************************************)
Init ==
    /\ remote_bookings \in InitBookings
    /\ remote_customers \in InitCustomers
    /\ tool_results = EmptyState
    /\ last = NoLast
    /\ HAS_FUZZY_MATCHING = TRUE

\* a new session with empty state
NewSession ==
    /\ tool_results' = create_session_with_state(NoneStr, NoAdditionalState)
    /\ last' = [NoLast EXCEPT !.op = "create_session_with_state"]
    /\ UNCHANGED <<HAS_FUZZY_MATCHING, remote_bookings, remote_customers>>

\* a new session with a customer id or an additional state
CreateSessionWithState ==
    \E customer_id \in {NoneStr, "c1"}, additional_state \in AdditionalStates :
        /\ tool_results' = create_session_with_state(customer_id, additional_state)
        /\ last' = [NoLast EXCEPT !.op = "create_session_with_state"]
        /\ UNCHANGED <<HAS_FUZZY_MATCHING, remote_bookings, remote_customers>>

GetCustomerProfile ==
    \E ok \in BOOLEAN :
        /\ tool_results' = get_customer_profile(tool_results, remote_customers, ok)
        /\ last' = [NoLast EXCEPT !.op = "get_customer_profile",
                        !.calls = <<Call("get_customer_profile", ok, NoId, NoBooking)>>]
        /\ UNCHANGED <<HAS_FUZZY_MATCHING, remote_bookings, remote_customers>>

EnsureServiceMatched ==
    \E service_request \in ServiceRequests, ok \in BOOLEAN :
        \E r \in {ensure_service_matched(tool_results, service_request, ok)} :
            /\ tool_results' = r.tr
            /\ last' = r.last
            /\ UNCHANGED <<HAS_FUZZY_MATCHING, remote_bookings, remote_customers>>

GetBookings ==
    \E ok \in BOOLEAN :
        \E r \in {get_bookings(tool_results, remote_bookings, ok)} :
            /\ tool_results' = r.tr
            /\ last' = [NoLast EXCEPT !.op = "get_bookings",
                            !.calls = <<Call("get_bookings", ok, NoId, NoBooking)>>]
            /\ UNCHANGED <<HAS_FUZZY_MATCHING, remote_bookings, remote_customers>>

CreateBooking ==
    \E payload \in ToolPayloads, ok \in BOOLEAN :
        \E r \in {create_booking(tool_results, remote_bookings, payload, ok)} :
            /\ Len(r.remote) <= MaxBookings
            /\ tool_results' = r.tr
            /\ remote_bookings' = r.remote
            /\ last' = [NoLast EXCEPT !.op = "create_booking",
                            !.calls = <<Call("create_booking", ok, r.data.id, r.sent)>>,
                            !.status = IF ok THEN "created" ELSE "error"]
            /\ UNCHANGED <<HAS_FUZZY_MATCHING, remote_customers>>

\* an outcome is chosen for the remote calls that are issued only
OutcomesOfIssuedCalls(calls, okFetch, okUpdate, okCreate) ==
    LET Issued(api) == \E i \in DOMAIN calls : calls[i].api = api
    IN  /\ ~okFetch => Issued("get_bookings")
        /\ ~okUpdate => Issued("update_booking")
        /\ ~okCreate => Issued("create_booking")

\* the same for one remote call
OutcomeOfIssuedCall(calls, api, ok) ==
    ~ok => \E i \in DOMAIN calls : calls[i].api = api

EnsureBookingExistsOn(requests) ==
    \E args \in requests, okFetch \in BOOLEAN, okUpdate \in BOOLEAN,
       okCreate \in BOOLEAN :
        \E r \in {ensure_booking_exists(tool_results, remote_bookings, args,
                                       okFetch, okUpdate, okCreate)} :
            /\ Len(r.remote) <= MaxBookings
            /\ OutcomesOfIssuedCalls(r.last.calls, okFetch, okUpdate, okCreate)
            /\ tool_results' = r.tr
            /\ remote_bookings' = r.remote
            /\ last' = r.last
            /\ UNCHANGED <<HAS_FUZZY_MATCHING, remote_customers>>

\* ensure_booking_exists called with calculated dates
EnsureBookingExists == EnsureBookingExistsOn(DatedRequests)

\* ensure_booking_exists called with a date phrase and no dates
EnsureBookingExistsPhrase == EnsureBookingExistsOn(PhraseRequests)

Next ==
    \/ NewSession
    \/ GetCustomerProfile
    \/ EnsureServiceMatched
    \/ GetBookings
    \/ CreateBooking
    \/ EnsureBookingExists

Spec == Init /\ [][Next]_vars

(***************************************************************************)
(* The same machine with sessions that start with a seeded state, on a     *)
(* remote store that holds no booking at the start.                        *)
(***************************************************************************)
InitSeeded ==
    /\ remote_bookings = <<>>
    /\ remote_customers \in InitCustomers
    /\ tool_results = EmptyState
    /\ last = NoLast
    /\ HAS_FUZZY_MATCHING = TRUE

NextSeeded ==
    \/ CreateSessionWithState
    \/ GetCustomerProfile
    \/ EnsureServiceMatched
    \/ EnsureBookingExistsPhrase

SpecSeeded == InitSeeded /\ [][NextSeeded]_vars

(***************************************************************************)
(* The customer stage on its own: sessions that start empty and call       *)
(* ensure_customer_exists, on a remote store of customers.                 *)
(***************************************************************************)
MaxCustomers == 3

Alice == CustomerRecord("c1", <<"Alice">>, <<"smith">>, "a@x", "555", <<>>)
Bob == CustomerRecord("c2", <<"bob">>, <<>>, "b@x", "777", <<>>)

\* the customers the remote store may hold at the start
InitCustomerLists == { <<>>, <<Alice, Bob>>, <<Bob, Alice>> }

CustomerRequest(name, email, phone) == [name |-> name, email |-> email, phone |-> phone]

\* the arguments of ensure_customer_exists: a known name, a known email in
\* either case, a known phone, an unknown customer, and no data at all
CustomerRequests ==
    { CustomerRequest(<<"bob">>, NoneStr, NoneStr),
      CustomerRequest(<<>>, "b@x", NoneStr),
      CustomerRequest(<<>>, "A@X", NoneStr),
      CustomerRequest(<<>>, NoneStr, "777"),
      CustomerRequest(<<"carol", "jones">>, "c@x", NoneStr),
      CustomerRequest(<<>>, NoneStr, NoneStr) }

InitCustomer ==
    /\ remote_bookings = <<>>
    /\ remote_customers \in InitCustomerLists
    /\ tool_results = EmptyState
    /\ last = NoLast
    /\ HAS_FUZZY_MATCHING = TRUE

EnsureCustomerExists ==
    \E args \in CustomerRequests, okList \in BOOLEAN, okCreate \in BOOLEAN :
        \E r \in {ensure_customer_exists(tool_results, remote_customers, args.name,
                                         args.email, args.phone, okList, okCreate)} :
            /\ Len(r.remote) <= MaxCustomers
            /\ OutcomeOfIssuedCall(r.last.calls, "get_customer_profile", okList)
            /\ OutcomeOfIssuedCall(r.last.calls, "create_customer", okCreate)
            /\ tool_results' = r.tr
            /\ remote_customers' = r.remote
            /\ last' = r.last
            /\ UNCHANGED <<HAS_FUZZY_MATCHING, remote_bookings>>

NextCustomer ==
    \/ NewSession
    \/ EnsureCustomerExists

SpecCustomer == InitCustomer /\ [][NextCustomer]_vars

(***************************************************************************)
(* match_customer on its own: a list of candidates is drawn at the start   *)
(* and the function is applied to every combination of keys.               *)
(***************************************************************************)
MaxCandidates == 2

\* a second customer whose name is Alice, without email and phone
AliceOnly == CustomerRecord("c3", <<"alice">>, <<>>, "", "", <<>>)

\* a customer stored without first and last name
Nameless == CustomerRecord("c4", <<>>, <<>>, "n@x", "111", <<>>)

CandidatePool == {Alice, Bob, AliceOnly, Nameless}

\* the lists of up to MaxCandidates different candidates, in every order
CandidateLists ==
    { cs \in UNION {[1..n -> CandidatePool] : n \in 0..MaxCandidates} :
          \A i, j \in DOMAIN cs : i # j => cs[i] # cs[j] }

EmailKeys == {NoneStr, "A@X", "b@x", "z@x"}
PhoneKeys == {NoneStr, "555", "777"}
NameKeys == {<<>>, <<"Alice", "smith">>, <<"bob">>, <<"zed">>}

InitMatchCustomer ==
    /\ remote_bookings = <<>>
    /\ remote_customers \in CandidateLists
    /\ tool_results = EmptyState
    /\ last = NoLast
    /\ HAS_FUZZY_MATCHING = TRUE

\* apply match_customer to the list and record the customer it returns
MatchCustomer ==
    \E email \in EmailKeys, phone \in PhoneKeys, name \in NameKeys :
        \E i \in {match_customer(remote_customers, email, phone, name)} :
            /\ last' = [NoLast EXCEPT
                           !.op = "match_customer",
                           !.args = CustomerRequest(name, email, phone),
                           !.customer_id = IF i = 0 THEN NoneStr
                                           ELSE remote_customers[i].id]
            /\ UNCHANGED <<HAS_FUZZY_MATCHING, remote_bookings, remote_customers, tool_results>>

NextMatchCustomer == MatchCustomer

SpecMatchCustomer == InitMatchCustomer /\ [][NextMatchCustomer]_vars

(***************************************************************************)
(* The pets stage on a remote store of customers with pets, in sessions    *)
(* that start empty or seeded; and the pets stage followed by the booking  *)
(* stage in one session.                                                   *)
(***************************************************************************)
MaxPets == 3

PetBella == Pet("p1", "Bella", "poodle", "Female", "c1")
PetMax == Pet("p2", "Max", "lab", "Male", "c1")

PetOwner(id, pets) == CustomerRecord(id, <<"owner">>, <<>>, "", "", pets)

\* the customers the remote store may hold at the start: one customer with
\* two pets, one without pets, and a customer that stands second in the list
InitPetCustomers ==
    { <<PetOwner("c1", <<PetBella, PetMax>>)>>,
      <<PetOwner("c1", <<>>)>>,
      <<PetOwner("c2", <<Pet("p2", "Max", "lab", "Male", "c2")>>),
        PetOwner("c1", <<PetBella>>)>> }

\* the pets of a request: a known pet, a misspelt one, a known pet with a new
\* breed, that pet and a new one, a new pet, and two known pets
PetRequests ==
    { <<PetInfo("Bella", "poodle", NoneStr)>>,
      <<PetInfo("Bela", "poodle", NoneStr)>>,
      <<PetInfo("Bella", "beagle", NoneStr)>>,
      <<PetInfo("Bella", "beagle", NoneStr), PetInfo("Rex", "boxer", NoneStr)>>,
      <<PetInfo("Rex", NoneStr, "Female")>>,
      <<PetInfo("Bella", NoneStr, NoneStr), PetInfo("Max", NoneStr, NoneStr)>> }

InitPets ==
    /\ remote_bookings = <<>>
    /\ remote_customers \in InitPetCustomers
    /\ tool_results = EmptyState
    /\ last = NoLast
    /\ HAS_FUZZY_MATCHING \in BOOLEAN

EnsurePetsExistOn(requests) ==
    \E pets_data \in requests, ok \in BOOLEAN :
        \E r \in {ensure_pets_exist(tool_results, remote_customers, pets_data,
                                    HAS_FUZZY_MATCHING, ok)} :
            /\ Cardinality(UsedPetIds(r.remote)) <= MaxPets
            /\ OutcomeOfIssuedCall(r.last.calls, "create_pet_profiles", ok)
            /\ tool_results' = r.tr
            /\ remote_customers' = r.remote
            /\ last' = r.last
            /\ UNCHANGED <<HAS_FUZZY_MATCHING, remote_bookings>>

EnsurePetsExist == EnsurePetsExistOn(PetRequests)

NextPets ==
    \/ NewSession
    \/ CreateSessionWithState
    \/ GetCustomerProfile
    \/ EnsurePetsExist

SpecPets == InitPets /\ [][NextPets]_vars

\* the requests that name pets the customer has
KnownPetRequests ==
    { <<PetInfo("Bella", "poodle", NoneStr)>>,
      <<PetInfo("Bella", NoneStr, NoneStr), PetInfo("Max", NoneStr, NoneStr)>> }

EnsureKnownPetsExist == EnsurePetsExistOn(KnownPetRequests)

\* one session from the customer list to the booking
NextPetsBooking ==
    \/ GetCustomerProfile
    \/ EnsureKnownPetsExist
    \/ EnsureServiceMatched
    \/ EnsureBookingExistsPhrase

SpecPetsBooking == InitPets /\ [][NextPetsBooking]_vars

(***************************************************************************)
(* match_pet on its own: a list of pets and the availability of rapidfuzz  *)
(* are drawn at the start and the function is applied to every name.       *)
(***************************************************************************)
MaxPetCandidates == 2

PetBela == Pet("p3", "Bela", "poodle", "Female", "c1")

PetPool == {PetBella, PetMax, PetBela}

\* the lists of up to MaxPetCandidates different pets, in every order
PetLists ==
    { ps \in UNION {[1..n -> PetPool] : n \in 0..MaxPetCandidates} :
          \A i, j \in DOMAIN ps : i # j => ps[i] # ps[j] }

PetNames == {"Bella", "bella", "Bela", "Max", "max", "Rex"}

InitMatchPet ==
    /\ remote_bookings = <<>>
    /\ remote_customers \in { <<PetOwner("c1", ps)>> : ps \in PetLists }
    /\ tool_results = EmptyState
    /\ last = NoLast
    /\ HAS_FUZZY_MATCHING \in BOOLEAN

\* apply match_pet to the pets of the customer and record the pet it returns
MatchPet ==
    \E pet_name \in PetNames :
        \E i \in {match_pet(remote_customers[1].pets, pet_name, HAS_FUZZY_MATCHING)} :
            /\ last' = [NoLast EXCEPT
                           !.op = "match_pet",
                           !.args = pet_name,
                           !.result_pet_ids =
                               IF i = 0 THEN <<>>
                               ELSE <<remote_customers[1].pets[i].id>>]
            /\ UNCHANGED <<HAS_FUZZY_MATCHING, remote_bookings, remote_customers,
                           tool_results>>

NextMatchPet == MatchPet

SpecMatchPet == InitMatchPet /\ [][NextMatchPet]_vars

(***************************************************************************)
(* match_service_semantic on its own: a list of services is drawn at the   *)
(* start, as the cached services of the session, and the function is       *)
(* applied to every request.                                               *)
(***************************************************************************)
MaxServices == 2

\* the lists of up to MaxServices different services, in every order
ServiceLists ==
    { ss \in UNION {[1..n -> ServicePool] : n \in 0..MaxServices} :
          \A i, j \in DOMAIN ss : i # j => ss[i] # ss[j] }

InitMatchService ==
    /\ remote_bookings = <<>>
    /\ remote_customers = <<>>
    /\ tool_results \in
           { [EmptyState EXCEPT !.get_services =
                 [present |-> TRUE, full_response |-> ss,
                  service_id |-> IF ss # <<>> THEN ss[1].id ELSE NoneStr]] :
                 ss \in ServiceLists }
    /\ last = NoLast
    /\ HAS_FUZZY_MATCHING = TRUE

\* apply match_service_semantic to the services and record its result
MatchServiceSemantic ==
    \E service_request \in SemanticRequests :
        \E i \in {match_service_semantic(tool_results.get_services.full_response,
                                         service_request)} :
            /\ last' = [NoLast EXCEPT
                           !.op = "match_service_semantic",
                           !.args = service_request,
                           !.matched_service_id =
                               IF i = 0 THEN NoneStr
                               ELSE tool_results.get_services.full_response[i].id]
            /\ UNCHANGED <<HAS_FUZZY_MATCHING, remote_bookings, remote_customers,
                           tool_results>>

NextMatchService == MatchServiceSemantic

SpecMatchService == InitMatchService /\ [][NextMatchService]_vars

(***************************************************************************)
(* The service stage in a session.  The answer of the remote to a fetch of *)
(* the services is drawn at each fetch: the professional may edit the      *)
(* services while a session lasts.  `last.args` keeps the phrase of the    *)
(* call and `last.earlier` the matches made earlier in the session.        *)
(***************************************************************************)
SessionServices ==
    { Service("s1", "Pet Sitting", "r1"), Service("s2", "Dog Walking", NoneStr),
      Service("s6", "Dog Walking", "r6"), Service("s7", "Pet Sitting", "r7") }

\* the answers of the remote: up to MaxServices different services
RemoteAnswers ==
    { ss \in UNION {[1..n -> SessionServices] : n \in 0..MaxServices} :
          \A i, j \in DOMAIN ss : i # j => ss[i] # ss[j] }

InitService ==
    /\ remote_bookings = <<>>
    /\ remote_customers = <<>>
    /\ tool_results = EmptyState
    /\ last = NoLast
    /\ HAS_FUZZY_MATCHING = TRUE

\* the matches made in the session up to and including the latest call
MatchedSoFar ==
    last.earlier \cup
        IF last.op = "ensure_service_matched" /\ last.status = "matched"
        THEN {[service_request |-> last.args,
               service_id |-> last.matched_service_id,
               service_name |-> last.service_name,
               service_rate_id |-> last.service_rate_id]}
        ELSE {}

\* the get_services tool of the booking creation agent
GetServices ==
    \E remote \in RemoteAnswers, ok \in BOOLEAN :
        \E r \in {get_services_from(tool_results, remote, ok)} :
            /\ tool_results' = r.tr
            /\ last' = [NoLast EXCEPT
                           !.op = "get_services",
                           !.calls = <<Call("get_services", ok, NoId, NoBooking)>>,
                           !.earlier = MatchedSoFar]
            /\ UNCHANGED <<HAS_FUZZY_MATCHING, remote_bookings, remote_customers>>

\* the ensure_service_matched tool of the service agent
EnsureServiceMatchedInSession ==
    \E service_request \in ServiceRequests, remote \in RemoteAnswers,
       ok \in BOOLEAN :
        \E r \in {ensure_service_matched_from(tool_results, remote,
                                              service_request, ok)} :
            /\ OutcomeOfIssuedCall(r.last.calls, "get_services", ok)
            /\ tool_results' = r.tr
            /\ last' = [r.last EXCEPT !.args = service_request,
                                      !.earlier = MatchedSoFar]
            /\ UNCHANGED <<HAS_FUZZY_MATCHING, remote_bookings, remote_customers>>

NextService ==
    \/ NewSession
    \/ GetServices
    \/ EnsureServiceMatchedInSession

SpecService == InitService /\ [][NextService]_vars

(***************************************************************************)
(* The dates of a request computed on every day the process may be         *)
(* started on: `last.current` keeps that day.                              *)
(***************************************************************************)
MaxDay == 28

\* the days config.CURRENT_DATE may be: four weeks
CurrentDates == 1..MaxDay

\* a cached date_result: none, one without a start date, a complete one
DateResults ==
    { NoDateResult,
      [present |-> TRUE, start_date |-> NoDate, end_date |-> 2,
       start_time |-> NoneStr, end_time |-> NoneStr],
      [present |-> TRUE, start_date |-> 2, end_date |-> 2,
       start_time |-> NoneStr, end_time |-> NoneStr] }

\* requests with a date phrase, without dates or with calculated dates
DateRequests ==
    PhraseRequests \cup
        { Request(NoDate, 9, NoneStr, NoneStr, NoneStr, "next weekend"),
          Request(9, 9, NoneStr, NoneStr, NoneStr, "next weekend") }

InitDates ==
    /\ remote_bookings = <<>>
    /\ remote_customers = <<>>
    /\ tool_results \in {[EmptyState EXCEPT !.date_result = dr] : dr \in DateResults}
    /\ last = NoLast
    /\ HAS_FUZZY_MATCHING = TRUE

\* the date calculation of ensure_booking_exists on the day `current`
CalculateDates ==
    \E current \in CurrentDates, args \in DateRequests :
        /\ last' = [NoLast EXCEPT
                       !.op = "calculated_dates",
                       !.args = args,
                       !.current = current,
                       !.calculated = calculated_dates_on(current, tool_results, args)]
        /\ UNCHANGED <<HAS_FUZZY_MATCHING, remote_bookings, remote_customers,
                       tool_results>>

NextDates == CalculateDates

SpecDates == InitDates /\ [][NextDates]_vars

(***************************************************************************)
(* Updates of an existing booking: the remote store holds one scheduled    *)
(* booking of the customer and the pets, for the service of the session or *)
(* for another one, and the requests name all, some or none of the dates.  *)
(***************************************************************************)
InitUpdateBookings ==
    { <<Booking(1, "c1", sv[1], sv[2], FirstRequestDay + 7, FirstRequestDay + 8,
                "09:00", "17:00", "scheduled", Pets, "n0")>> :
        sv \in {<<"s1", "r1">>, <<"s3", "r3">>} }

UpdateRequests ==
    { Request(NoDate, NoDate, NoneStr, NoneStr, NoneStr, "tomorrow"),
      Request(NoDate, NoDate, NoneStr, NoneStr, "n1", "next weekend"),
      Request(FirstRequestDay, NoDate, NoneStr, NoneStr, NoneStr, "tomorrow"),
      Request(FirstRequestDay, LastRequestDay, "08:00", "18:00", "n1", "tomorrow") }

InitUpdate ==
    /\ remote_bookings \in InitUpdateBookings
    /\ remote_customers = <<Customer("c1", <<"p1", "p2">>)>>
    /\ tool_results = EmptyState
    /\ last = NoLast
    /\ HAS_FUZZY_MATCHING = TRUE

\* ensure_booking_exists called with all, some or none of the dates
EnsureBookingExistsUpdate == EnsureBookingExistsOn(UpdateRequests)

NextUpdate ==
    \/ NewSession
    \/ GetCustomerProfile
    \/ EnsureServiceMatched
    \/ GetBookings
    \/ EnsureBookingExistsUpdate

SpecUpdate == InitUpdate /\ [][NextUpdate]_vars

(***************************************************************************)
(* The tools of the customer agent called directly: get_customer_profile   *)
(* and create_customer.                                                    *)
(***************************************************************************)
\* the payloads of the create_customer tool: a known email, a known phone,
\* an unknown customer, and a customer without email and phone
CustomerPayloads ==
    { customer_data(<<"bob">>, "b@x", NoneStr),
      customer_data(<<"al">>, NoneStr, "555"),
      customer_data(<<"carol", "jones">>, "c@x", "999"),
      customer_data(<<"dan">>, NoneStr, NoneStr) }

\* the create_customer tool; status tells whether the answer is marked
\* from_cache
CreateCustomer ==
    \E payload \in CustomerPayloads, ok \in BOOLEAN :
        \E r \in {create_customer(tool_results, remote_customers, payload, ok)} :
            /\ Len(r.remote) <= MaxCustomers
            /\ OutcomeOfIssuedCall(r.calls, "create_customer", ok)
            /\ tool_results' = r.tr
            /\ remote_customers' = r.remote
            /\ last' = [NoLast EXCEPT
                           !.op = "create_customer",
                           !.args = payload,
                           !.calls = r.calls,
                           !.customer_id = r.data.id,
                           !.status = IF r.calls = <<>> THEN "from_cache"
                                      ELSE IF r.success THEN "success"
                                      ELSE "error"]
            /\ UNCHANGED <<HAS_FUZZY_MATCHING, remote_bookings>>

NextCreateCustomer ==
    \/ NewSession
    \/ GetCustomerProfile
    \/ CreateCustomer

SpecCreateCustomer == InitCustomer /\ [][NextCreateCustomer]_vars

(***************************************************************************)
(* Properties.  They read the observation `last` of the latest operation.  *)
(***************************************************************************)
IsEnsure == last.op = "ensure_booking_exists"

\* the invocation passed its preconditions and went on to the remote store
Resolved == IsEnsure /\ last.status \in {"created", "updated", "error"}

FoundExisting == Resolved /\ last.existing.id # NoId

Issued(calls, api) == \E i \in DOMAIN calls : calls[i].api = api

AllCallsOk(calls) == \A i \in DOMAIN calls : calls[i].ok

\* requestedStart <= existingEnd and requestedEnd >= existingStart
Overlap(sd, ed, b) == sd <= b.endDate /\ ed >= b.startDate

\* two scheduled bookings of one client with the same pets and overlapping dates
Duplicates(bookings) ==
    \E i, j \in DOMAIN bookings :
        /\ i < j
        /\ bookings[i].status = "scheduled" /\ bookings[j].status = "scheduled"
        /\ bookings[i].clientId = bookings[j].clientId
        /\ bookings[i].bookingPets = bookings[j].bookingPets
        /\ Overlap(bookings[i].startDate, bookings[i].endDate, bookings[j])

\* C1: an ensure_booking_exists call on a remote store that holds no two
\* scheduled bookings with the same client, the same pet set and overlapping
\* dates leaves the store without such a pair.
C1_NoDuplicateBookings ==
    [][(last'.op = "ensure_booking_exists" /\ ~Duplicates(remote_bookings))
           => ~Duplicates(remote_bookings')]_vars

\* C2: an invocation that found an existing booking issues no create-booking
\* call, whatever the outcome of the re-fetch and of the update.
C2_FoundNeverCreates ==
    FoundExisting => ~Issued(last.calls, "create_booking")

\* C3: a booking is updated only for a request whose date range overlaps it:
\* an invocation whose existing booking does not overlap the requested range
\* issues no update-booking call.
C3_UpdateOnlyOnOverlap ==
    (FoundExisting /\ ~Overlap(last.final.start_date, last.final.end_date,
                               last.existing))
        => ~Issued(last.calls, "update_booking")

\* C4: the booking taken as the existing one, and every booking an update
\* call is sent for, has the resolved customer as client, the status
\* "scheduled" and exactly the requested pet set; when no booking is taken
\* as existing the only call is a create-booking call.
C4_ExactMatchOnly ==
    Resolved =>
        /\ FoundExisting =>
               /\ last.existing.clientId = last.customer_id
               /\ last.existing.status = "scheduled"
               /\ last.existing.bookingPets = last.pet_ids
        /\ \A i \in DOMAIN last.calls :
               last.calls[i].api = "update_booking" =>
                   /\ last.calls[i].id = last.existing.id
                   /\ last.calls[i].data.clientId = last.customer_id
                   /\ last.calls[i].data.status = "scheduled"
                   /\ last.calls[i].data.bookingPets = last.pet_ids
        /\ ~FoundExisting =>
               /\ Len(last.calls) = 1
               /\ last.calls[1].api = "create_booking"

\* a cached booking other than the created one that the request passed over:
\* not scheduled, of another client, or with another pet set
PassedOver(b) ==
    /\ b.id # last.booking_id
    /\ \/ b.status # "scheduled"
       \/ b.clientId # last.customer_id
       \/ b.bookingPets # last.pet_ids

C4_Witness ==
    /\ IsEnsure /\ last.status = "created" /\ last.cache_present
    /\ ~FoundExisting
    /\ \E i \in DOMAIN tool_results.get_bookings.full_response :
           PassedOver(tool_results.get_bookings.full_response[i])

\* C5: an invocation that follows, in the same session, one that created a
\* booking, with the same customer, pets, service and arguments and with
\* every remote call succeeding, issues no create-booking call: it updates
\* the booking the first one created.
C5_SecondCallDoesNotCreate ==
    [][(/\ IsEnsure /\ last.status = "created" /\ ~FoundExisting
        /\ last'.op = "ensure_booking_exists"
        /\ last'.args = last.args
        /\ last'.customer_id = last.customer_id
        /\ last'.pet_ids = last.pet_ids
        /\ last'.matched_service_id = last.matched_service_id
        /\ AllCallsOk(last'.calls))
           => /\ ~Issued(last'.calls, "create_booking")
              /\ last'.status = "updated"
              /\ last'.booking_id = last.booking_id
              /\ Len(remote_bookings') = Len(remote_bookings)]_vars

C5_Witness ==
    /\ IsEnsure /\ last.status = "updated" /\ AllCallsOk(last.calls)
    /\ Len(remote_bookings) = 1
    /\ remote_bookings[1].id = last.booking_id
    /\ remote_bookings[1].bookingPets = last.pet_ids
    /\ remote_bookings[1].startDate = last.args.start_date
    /\ remote_bookings[1].startTime = NoneStr
    /\ remote_bookings[1].notes = ""

\* the existing booking already has the requested dates, times, service
\* and notes
SameDetails ==
    /\ last.existing.startDate = last.final.start_date
    /\ last.existing.endDate = last.final.end_date
    /\ last.existing.startTime = last.final.start_time
    /\ last.existing.endTime = last.final.end_time
    /\ last.existing.serviceId = last.matched_service_id
    /\ last.existing.notes = last.args.notes

\* C6: when the existing booking already has the requested details the
\* invocation returns action_taken "no_changes" and issues neither an
\* update-booking nor a create-booking call.
C6_NoChangesNoWrite ==
    (FoundExisting /\ SameDetails) =>
        /\ last.action_taken = "no_changes"
        /\ ~Issued(last.calls, "update_booking")
        /\ ~Issued(last.calls, "create_booking")

\* C7: an invocation that finds no cached booking list fetches the bookings
\* before it creates or updates: its first remote call is get_bookings.
C7_FetchWhenNoCache ==
    (Resolved /\ ~last.cache_present) =>
        /\ Len(last.calls) > 0
        /\ last.calls[1].api = "get_bookings"

\* C8: an invocation with a missing customer id, pet ids, service id, rate
\* id or start date returns insufficient_data or rate_missing and issues no
\* remote call.
C8_MissingPreconditionIsTerminal ==
    (/\ IsEnsure
     /\ \/ last.customer_id = NoneStr
        \/ last.pet_ids = {}
        \/ last.matched_service_id = NoneStr
        \/ last.service_rate_id = NoneStr
        \/ last.calculated.start_date = NoDate)
        => /\ last.status \in {"insufficient_data", "rate_missing"}
           /\ last.calls = <<>>

\* the state holds a customer and pets but no rate id
NoRateInState ==
    /\ IsEnsure
    /\ read_customer_id(tool_results) # NoneStr
    /\ read_pet_ids(tool_results) # {}
    /\ read_service_rate_id(tool_results) = NoneStr

\* C9 as stated: with a customer and pets but no rate id in the state the
\* invocation returns "rate_missing" and performs no remote call.
C9_NoRateIsRateMissing ==
    NoRateInState => (last.status = "rate_missing" /\ last.calls = <<>>)

\* C9 amended: with a customer and pets but no rate id in the state the
\* invocation performs no remote call; it returns "rate_missing" when the
\* state holds a service id and "insufficient_data" when it holds none.
C9_NoRateIsTerminal ==
    NoRateInState =>
        /\ last.calls = <<>>
        /\ last.status = IF read_service_id(tool_results) = NoneStr
                         THEN "insufficient_data" ELSE "rate_missing"

C9_Witness ==
    /\ NoRateInState
    /\ read_service_id(tool_results) # NoneStr
    /\ last.status = "rate_missing"

\* the rate id is the rate of the service
RateOfService(service_id, service_rate_id) ==
    \E i \in DOMAIN remote_services :
        /\ remote_services[i].id = service_id
        /\ remote_services[i].serviceRateId = service_rate_id

\* C10: every create-booking call carries a rate id that is not null and is
\* the rate of the service of the booking.
C10_CreateCarriesRate ==
    \A i \in DOMAIN last.calls :
        last.calls[i].api = "create_booking" =>
            /\ last.calls[i].data.serviceRateId # NoneStr
            /\ RateOfService(last.calls[i].data.serviceId,
                             last.calls[i].data.serviceRateId)

\* C11: an ensure_booking_exists call that follows, in the same session, an
\* ensure_service_matched call that returned not_found, rate_missing or
\* error issues no create-booking and no update-booking call and leaves the
\* bookings of the remote store as they are.
C11_TerminalServiceBlocksBooking ==
    [][(/\ last.op = "ensure_service_matched"
        /\ last.status \in {"not_found", "rate_missing", "error"}
        /\ last'.op = "ensure_booking_exists")
           => /\ ~Issued(last'.calls, "create_booking")
              /\ ~Issued(last'.calls, "update_booking")
              /\ remote_bookings' = remote_bookings]_vars

IsEnsureCustomer == last.op = "ensure_customer_exists"

\* the list-customers call of the latest operation failed
ListCallFailed ==
    \E i \in DOMAIN last.calls :
        last.calls[i].api = "get_customer_profile" /\ ~last.calls[i].ok

\* C12: of two consecutive ensure_customer_exists calls of one session with
\* the same name, email and phone, the first of which returned a customer,
\* at most one issues a create-customer call, and the second returns the
\* customer id the first returned.
C12_SecondCallReusesCustomer ==
    [][(/\ IsEnsureCustomer
        /\ last.status \in {"found", "created"}
        /\ last'.op = "ensure_customer_exists"
        /\ last'.args = last.args)
           => /\ ~(/\ Issued(last.calls, "create_customer")
                   /\ Issued(last'.calls, "create_customer"))
              /\ last'.customer_id = last.customer_id]_vars

\* C13: after ensure_customer_exists found or created a customer, the
\* customer id the later stages read from state is the id it returned.
C13_StateCustomerIsReturnedCustomer ==
    (IsEnsureCustomer /\ last.status \in {"found", "created"})
        => read_customer_id(tool_results) = last.customer_id

\* C15: an ensure_customer_exists call whose list-customers call failed
\* returns status "error" and issues no create-customer call.
C15_FailedListIsError ==
    (IsEnsureCustomer /\ ListCallFailed)
        => /\ last.status = "error"
           /\ ~Issued(last.calls, "create_customer")

\* C16: an ensure_customer_exists call with no name, no email and no phone
\* returns "insufficient_data" and issues no remote call.
C16_NoDataNoRemoteCall ==
    (/\ IsEnsureCustomer
     /\ last.args.name = <<>>
     /\ ~Truthy(last.args.email)
     /\ ~Truthy(last.args.phone))
        => /\ last.status = "insufficient_data"
           /\ last.calls = <<>>

\* C17: an ensure_customer_exists call that found a customer list in the
\* session state issues no list-customers call.
C17_CachedListNotFetched ==
    (IsEnsureCustomer /\ last.cache_present)
        => ~Issued(last.calls, "get_customer_profile")

\* the ids of the candidates that match the keys of the latest call by
\* email (case-insensitive), by phone (exactly), by name (substring)
IdsByEmail ==
    { c.id : c \in { remote_customers[k] : k \in
        { k \in DOMAIN remote_customers :
            /\ Truthy(last.args.email)
            /\ Truthy(remote_customers[k].email)
            /\ lower(remote_customers[k].email) = lower(last.args.email) } } }

IdsByPhone ==
    { c.id : c \in { remote_customers[k] : k \in
        { k \in DOMAIN remote_customers :
            /\ Truthy(last.args.phone)
            /\ remote_customers[k].phone = last.args.phone } } }

IdsByName ==
    { c.id : c \in { remote_customers[k] : k \in
        { k \in DOMAIN remote_customers :
            /\ last.args.name # <<>>
            /\ customer_name_of(remote_customers[k]) # <<>>
            /\ \/ IsSubstring(lower_words(last.args.name),
                              customer_name_of(remote_customers[k]))
               \/ IsSubstring(customer_name_of(remote_customers[k]),
                              lower_words(last.args.name)) } } }

\* C18: match_customer returns a candidate that matches by email when one
\* exists anywhere in the list; else one that matches by phone; else one
\* that matches by name; and None when no candidate matches on any key.
C18_EmailThenPhoneThenName ==
    last.op = "match_customer" =>
        IF IdsByEmail # {} THEN last.customer_id \in IdsByEmail
        ELSE IF IdsByPhone # {} THEN last.customer_id \in IdsByPhone
        ELSE IF IdsByName # {} THEN last.customer_id \in IdsByName
        ELSE last.customer_id = NoneStr

\* the members of a sequence
Range(seq) == {seq[i] : i \in DOMAIN seq}

IsEnsurePets == last.op = "ensure_pets_exist"

\* C14: when ensure_booking_exists follows an ensure_pets_exist call that
\* returned pets and goes on to the remote store, the pet set it matches
\* bookings with and the bookingPets of every booking it creates are the
\* pet ids that call returned.
C14_BookingPetsAreReturnedPets ==
    [][(/\ IsEnsurePets
        /\ last.status \in {"found", "created", "updated"}
        /\ last'.op = "ensure_booking_exists"
        /\ last'.status \in {"created", "updated", "error"})
           => /\ last'.pet_ids = Range(last.result_pet_ids)
              /\ \A i \in DOMAIN last'.calls :
                     last'.calls[i].api = "create_booking" =>
                         last'.calls[i].data.bookingPets
                             = Range(last.result_pet_ids)]_vars

\* C19: of two consecutive ensure_pets_exist calls of one session with the
\* same pets, the first of which returned pets and had its upsert, if any,
\* succeed, the second issues no upsert call, returns "found" with the same
\* pet ids and leaves the pets of the remote store as they are.
C19_SecondCallFindsPets ==
    [][(/\ IsEnsurePets
        /\ last.status \in {"found", "created", "updated"}
        /\ AllCallsOk(last.calls)
        /\ last'.op = "ensure_pets_exist"
        /\ last'.args = last.args)
           => /\ ~Issued(last'.calls, "create_pet_profiles")
              /\ last'.status = "found"
              /\ Range(last'.result_pet_ids) = Range(last.result_pet_ids)
              /\ remote_customers' = remote_customers]_vars

\* the pets of the first cached customer, which ensure_pets_exist matches
\* the request against
ExistingPets ==
    IF /\ tool_results.get_customer_profile.present
       /\ tool_results.get_customer_profile.customers # <<>>
    THEN tool_results.get_customer_profile.customers[1].pets
    ELSE <<>>

\* C20: an ensure_pets_exist invocation that has a customer id issues at
\* most one upsert call; when a requested pet has no match or has a match
\* with another breed, the call carries exactly those pets, the matched ones
\* under their ids; when every requested pet has a match and none needs an
\* update, no call is issued and the matched ids come back as "found".
C20_OneUpsertCarriesAllMarkedPets ==
    [][(last'.op = "ensure_pets_exist" /\ last'.customer_id # NoneStr) =>
        LET req == last'.args
            M(i) == match_pet(ExistingPets, req[i].name, HAS_FUZZY_MATCHING)
            Marked == {i \in DOMAIN req :
                          /\ Truthy(req[i].name)
                          /\ \/ M(i) = 0
                             \/ /\ Truthy(req[i].breed)
                                /\ req[i].breed # ExistingPets[M(i)].breed}
            upserts == {k \in DOMAIN last'.calls :
                           last'.calls[k].api = "create_pet_profiles"}
        IN  /\ Cardinality(upserts) <= 1
            /\ Marked # {} =>
                   \E k \in upserts :
                       /\ Len(last'.calls[k].data.pets) = Cardinality(Marked)
                       /\ \A i \in Marked :
                              \E j \in DOMAIN last'.calls[k].data.pets :
                                  /\ last'.calls[k].data.pets[j].name = req[i].name
                                  /\ last'.calls[k].data.pets[j].id =
                                         IF M(i) = 0 THEN NoneStr
                                         ELSE ExistingPets[M(i)].id
            /\ (Marked = {} /\ \A i \in DOMAIN req : Truthy(req[i].name)) =>
                   /\ last'.calls = <<>>
                   /\ last'.status = "found"
                   /\ last'.result_pet_ids =
                          [i \in DOMAIN req |-> ExistingPets[M(i)].id]]_vars

\* an upsert call that carries a pet to update and a pet to create
C20_Witness ==
    /\ IsEnsurePets
    /\ last.status = "updated"
    /\ \E k \in DOMAIN last.calls :
           /\ last.calls[k].api = "create_pet_profiles"
           /\ Len(last.calls[k].data.pets) = 2
           /\ \E i, j \in DOMAIN last.calls[k].data.pets :
                  /\ last.calls[k].data.pets[i].id # NoneStr
                  /\ last.calls[k].data.pets[j].id = NoneStr

\* the pets of the upsert payloads of the latest operation
SentPets(calls) ==
    UNION { Range(calls[k].data.pets) :
                k \in {k \in DOMAIN calls : calls[k].api = "create_pet_profiles"} }

\* C21: of the pets of an ensure_pets_exist request, a pet that matches an
\* existing pet and has no breed or the same breed is in no upsert payload;
\* a pet that matches and has another breed is sent with the id of the
\* existing pet; a pet without match is sent without id, with gender "Male"
\* when the request gives none; a sent pet whose name matched an existing
\* pet carries that pet's id.
C21_PetsMarkedByMatchAndBreed ==
    [][(last'.op = "ensure_pets_exist" /\ last'.customer_id # NoneStr) =>
        LET req == last'.args
            M(i) == match_pet(ExistingPets, req[i].name, HAS_FUZZY_MATCHING)
            sent == SentPets(last'.calls)
        IN  \A i \in DOMAIN req :
                /\ (M(i) # 0 /\ req[i].breed \in {NoneStr, ExistingPets[M(i)].breed})
                       => ~\E p \in sent : p.name = req[i].name
                /\ (M(i) # 0 /\ req[i].breed \notin {NoneStr, ExistingPets[M(i)].breed})
                       => \E p \in sent : /\ p.name = req[i].name
                                          /\ p.breed = req[i].breed
                                          /\ p.id = ExistingPets[M(i)].id
                /\ M(i) = 0
                       => \E p \in sent : /\ p.name = req[i].name
                                          /\ p.id = NoneStr
                                          /\ p.gender = IF req[i].gender = NoneStr
                                                        THEN "Male"
                                                        ELSE req[i].gender
                /\ M(i) # 0
                       => \A p \in sent : p.name = req[i].name
                                              => p.id = ExistingPets[M(i)].id]_vars

\* a pet created with the default gender next to nothing else
C21_Witness ==
    /\ IsEnsurePets
    /\ last.status = "created"
    /\ \E p \in SentPets(last.calls) : p.id = NoneStr /\ p.gender = "Male"
    /\ \E i \in DOMAIN last.args : last.args[i].gender = NoneStr

\* C22: every pet of an upsert payload of ensure_pets_exist has an ownerId
\* that is not null and is the customer id of the payload.
C22_SentPetsHaveOwner ==
    IsEnsurePets =>
        \A k \in DOMAIN last.calls :
            last.calls[k].api = "create_pet_profiles" =>
                /\ last.calls[k].data.id # NoneStr
                /\ \A p \in Range(last.calls[k].data.pets) :
                       p.ownerId # NoneStr /\ p.ownerId = last.calls[k].data.id

\* an upsert for the customer c2 that carries a pet to update
C22_Witness ==
    /\ IsEnsurePets
    /\ \E k \in DOMAIN last.calls :
           /\ last.calls[k].api = "create_pet_profiles"
           /\ last.calls[k].data.id = "c2"
           /\ \E p \in Range(last.calls[k].data.pets) : p.id # NoneStr

\* C23: an ensure_pets_exist invocation whose upsert call failed returns
\* status "error".
C23_FailedUpsertIsError ==
    (IsEnsurePets /\ Issued(last.calls, "create_pet_profiles")
                  /\ ~AllCallsOk(last.calls))
        => last.status = "error"

\* C24: an ensure_pets_exist invocation on a state without customer id
\* returns "insufficient_data" with no pet ids, issues no remote call and
\* leaves the session state and the remote store as they are.
C24_NoCustomerNoPets ==
    [][(/\ last'.op = "ensure_pets_exist"
        /\ \/ ~tool_results.get_customer_profile.present
           \/ tool_results.get_customer_profile.customer_id = NoneStr)
           => /\ last'.status = "insufficient_data"
              /\ last'.result_pet_ids = <<>>
              /\ last'.calls = <<>>
              /\ tool_results' = tool_results
              /\ remote_customers' = remote_customers]_vars

\* the stage was called in a session that holds no customer profile
C24_Witness ==
    /\ IsEnsurePets
    /\ last.status = "insufficient_data"
    /\ ~tool_results.get_customer_profile.present

\* the pets match_pet was applied to
CandidatePets == remote_customers[1].pets

\* the ids of the candidates whose name equals the requested name without
\* regard to case, whose similarity is the highest and at least 85, and
\* whose name contains the requested name or is contained in it
IdsByExactName ==
    { CandidatePets[k].id : k \in
        { k \in DOMAIN CandidatePets :
            lower(CandidatePets[k].name) = lower(last.args) } }

IdsByBestScore ==
    { CandidatePets[k].id : k \in
        { k \in DOMAIN CandidatePets :
            /\ fuzz_ratio(lower(last.args), lower(CandidatePets[k].name)) >= 85
            /\ \A j \in DOMAIN CandidatePets :
                   fuzz_ratio(lower(last.args), lower(CandidatePets[j].name))
                       <= fuzz_ratio(lower(last.args), lower(CandidatePets[k].name)) } }

IdsBySubstring ==
    { CandidatePets[k].id : k \in
        { k \in DOMAIN CandidatePets :
            \/ name_in(lower(last.args), lower(CandidatePets[k].name))
            \/ name_in(lower(CandidatePets[k].name), lower(last.args)) } }

\* C25: match_pet returns a pet with the requested name, case aside, when
\* the list has one; else the pet with the highest similarity if that is at
\* least 85; else a pet in a substring relation with the name; else None.
\* So "Bella" matches an existing "Bela" and "Rex" does not match "Max".
C25_ExactThenFuzzyThenSubstring ==
    last.op = "match_pet" =>
        IF IdsByExactName # {} THEN Range(last.result_pet_ids) \subseteq IdsByExactName
                                    /\ last.result_pet_ids # <<>>
        ELSE IF IdsByBestScore # {}
        THEN Range(last.result_pet_ids) \subseteq IdsByBestScore
             /\ last.result_pet_ids # <<>>
        ELSE IF IdsBySubstring # {}
        THEN Range(last.result_pet_ids) \subseteq IdsBySubstring
             /\ last.result_pet_ids # <<>>
        ELSE last.result_pet_ids = <<>>

IsMatchService == last.op = "match_service_semantic"

\* the services match_service_semantic was applied to
CandidateServices == tool_results.get_services.full_response

\* the name of the service it returned, NoneStr for None
MatchedServiceName ==
    IF \E i \in DOMAIN CandidateServices :
           CandidateServices[i].id = last.matched_service_id
    THEN CandidateServices[CHOOSE i \in DOMAIN CandidateServices :
             CandidateServices[i].id = last.matched_service_id].name
    ELSE NoneStr

\* a service of the grooming category
IsGrooming(name) == str_in("grooming", str_lower(name))

\* C28: "wash my dog" is never resolved to "Dog Walking"; it is resolved to
\* a grooming service when the list has one and to no service otherwise.
C28_WashIsGroomingOrNothing ==
    (IsMatchService /\ last.args = "wash my dog") =>
        /\ MatchedServiceName # "Dog Walking"
        /\ IF \E i \in DOMAIN CandidateServices : IsGrooming(CandidateServices[i].name)
           THEN MatchedServiceName # NoneStr /\ IsGrooming(MatchedServiceName)
           ELSE last.matched_service_id = NoneStr

\* C29: "watch my dog" against the services "Dog Walking" and "Pet Sitting",
\* in either order, is resolved to "Pet Sitting".
C29_WatchIsPetSitting ==
    (/\ IsMatchService
     /\ last.args = "watch my dog"
     /\ {CandidateServices[i].name : i \in DOMAIN CandidateServices}
            = {"Dog Walking", "Pet Sitting"})
        => MatchedServiceName = "Pet Sitting"

\* the request was matched against Dog Walking followed by Pet Sitting
C29_Witness ==
    /\ IsMatchService
    /\ last.args = "watch my dog"
    /\ Len(CandidateServices) = 2
    /\ CandidateServices[1].name = "Dog Walking"
    /\ CandidateServices[2].name = "Pet Sitting"
    /\ last.matched_service_id = CandidateServices[2].id

\* how a service matches the request of the latest call: 4 by its name, 3 by
\* substring only, 2 by keyword category only, 1 by word overlap only, 0 not
\* at all
MatchTier(name) ==
    LET rq == str_strip(str_lower(last.args))
        nm == str_strip(str_lower(name))
    IN  IF rq = nm THEN 4
        ELSE IF str_in(rq, nm) \/ str_in(nm, rq) THEN 3
        ELSE IF \E t \in DOMAIN keywords :
                    /\ str_in(keywords[t].service_type, nm)
                    /\ \E k \in DOMAIN keywords[t].keyword_list :
                           str_in(keywords[t].keyword_list[k], rq)
        THEN 2
        ELSE IF (str_words(nm) \cap str_words(rq)) \ stop_words # {} THEN 1
        ELSE 0

ScoreOf(i) == service_score(CandidateServices[i], last.args)

\* C30: match_service_semantic returns a service of maximal score, the
\* earliest of them, and None exactly when no service has a positive score;
\* a service of a higher tier (name, substring, keyword, word overlap)
\* outscores every service of a lower tier.
C30_MaximalScoreAndTiers ==
    IsMatchService =>
        /\ last.matched_service_id = NoneStr
               <=> \A i \in DOMAIN CandidateServices : ScoreOf(i) <= 0
        /\ \A i \in DOMAIN CandidateServices :
               CandidateServices[i].id = last.matched_service_id =>
                   /\ \A j \in DOMAIN CandidateServices : ScoreOf(j) <= ScoreOf(i)
                   /\ \A j \in 1..(i - 1) : ScoreOf(j) < ScoreOf(i)
        /\ \A i, j \in DOMAIN CandidateServices :
               MatchTier(CandidateServices[i].name)
                   > MatchTier(CandidateServices[j].name)
                   => ScoreOf(i) > ScoreOf(j)

(***************************************************************************)
(* The service stage in a session (SpecService).                           *)
(***************************************************************************)
IsEnsureService == last.op = "ensure_service_matched"

SameMatch(e) ==
    /\ last.matched_service_id = e.service_id
    /\ last.service_name = e.service_name
    /\ last.service_rate_id = e.service_rate_id

\* C26: once a phrase was matched successfully in a session, every later
\* ensure_service_matched call with that phrase returns the same service
\* id, name and rate id and issues no remote call; a result returned from
\* the cached match ("found") is a match of the phrase of the call, never
\* the match of another phrase.
C26_SamePhraseSameMatch ==
    IsEnsureService =>
        /\ \A e \in last.earlier :
               e.service_request = last.args =>
                   SameMatch(e) /\ last.calls = <<>>
        /\ last.status = "found" =>
               \E e \in last.earlier :
                   e.service_request = last.args /\ SameMatch(e)

\* C27: a call that is not answered from the cached match and whose
\* matched service has no rate id returns "rate_missing" with a null
\* service_rate_id and leaves the service match of the state as it was; a
\* call for which no service matches returns "not_found" with the names of
\* the available services; "rate_missing" and "not_found" are returned in
\* these cases only.
C27_RateMissingAndNotFound ==
    [][ last'.op = "ensure_service_matched" /\ last'.status # "found" =>
            LET services == tool_results'.get_services.full_response
                i == match_service_semantic(services, last'.args)
                no_rate == i # 0 /\ services[i].serviceRateId = NoneStr
            IN  /\ no_rate <=> last'.status = "rate_missing"
                /\ i = 0 <=> last'.status = "not_found"
                /\ last'.status = "rate_missing" =>
                       /\ last'.service_rate_id = NoneStr
                       /\ tool_results'.service_result = tool_results.service_result
                /\ last'.status = "not_found" =>
                       last'.available_services = service_names(services) ]_vars

\* a call returned "rate_missing" while the state holds an earlier match
C27_Witness ==
    /\ IsEnsureService
    /\ last.status = "rate_missing"
    /\ last.service_rate_id = NoneStr
    /\ tool_results.service_result.present
    /\ tool_results.service_result.service_request # last.args

\* the latest call fetched the services and the fetch failed
FailedServicesFetch ==
    /\ IsEnsureService
    /\ \E i \in DOMAIN last.calls :
           last.calls[i].api = "get_services" /\ ~last.calls[i].ok

\* C36: when the remote list-services call fails during
\* ensure_service_matched, the stage returns status "error", never
\* "not_found", and returns no service match.
C36_FailedFetchIsError ==
    FailedServicesFetch =>
        /\ last.status = "error"
        /\ last.matched_service_id = NoneStr

(***************************************************************************)
(* The date fallback on every current date (SpecDates).                    *)
(***************************************************************************)
\* no start date is passed or cached and the phrase holds "next weekend"
NextWeekendFallback ==
    /\ last.op = "calculated_dates"
    /\ last.args.start_date = NoDate
    /\ ~(tool_results.date_result.present
          /\ tool_results.date_result.start_date # NoDate)
    /\ str_in("next weekend", str_lower(last.args.date_phrase))

\* C38: the "next weekend" fallback sets the start date to the first
\* Saturday strictly after the current date, 1 to 7 days ahead and 7 when
\* the current date is a Saturday, and the end date to the Sunday after it,
\* on every weekday of the current date.
C38_NextWeekendIsNextSaturday ==
    NextWeekendFallback =>
        /\ weekday(last.calculated.start_date) = 5
        /\ last.calculated.start_date - last.current \in 1..7
        /\ weekday(last.current) = 5 =>
               last.calculated.start_date = last.current + 7
        /\ last.calculated.end_date = last.calculated.start_date + 1
        /\ weekday(last.calculated.end_date) = 6

\* the fallback ran on a Saturday with a cached end date and no start date
C38_Witness ==
    /\ NextWeekendFallback
    /\ weekday(last.current) = 5
    /\ tool_results.date_result.present
    /\ last.calculated.start_date = last.current + 7
    /\ last.calculated.end_date = last.current + 8

(***************************************************************************)
(* The booking sent on an update (Spec).                                   *)
(***************************************************************************)
\* the booking with the id `id` in a list of bookings
BookingWithId(bookings, id) ==
    bookings[CHOOSE k \in DOMAIN bookings : bookings[k].id = id]

\* the booking `sent` is the booking `ex` with the dates, times, service
\* and notes the request `l` names, and with the values of `ex` elsewhere
MergedFromRequest(sent, ex, l) ==
    /\ sent.id = ex.id
    /\ sent.clientId = ex.clientId
    /\ sent.status = ex.status
    /\ sent.bookingPets = ex.bookingPets
    /\ sent.notes = OrStr(l.args.notes, ex.notes)
    /\ sent.startDate = OrDate(l.calculated.start_date, ex.startDate)
    /\ sent.endDate = OrDate(l.calculated.end_date, ex.endDate)
    /\ sent.startTime = OrStr(l.calculated.start_time, ex.startTime)
    /\ sent.endTime = OrStr(l.calculated.end_time, ex.endTime)
    /\ sent.serviceId = OrStr(l.matched_service_id, ex.serviceId)
    /\ sent.serviceRateId = OrStr(l.service_rate_id, ex.serviceRateId)

\* C33: the booking sent by an update of ensure_booking_exists is the
\* existing booking of the remote store in which the dates, times, service
\* and notes of the request replace the existing values; every field the
\* request does not name (id, clientId, status, bookingPets, and dates,
\* times or notes that are not given) keeps its existing value.
C33_UpdateMergesOnlyRequestedFields ==
    [][ last'.op = "ensure_booking_exists" =>
            \A i \in DOMAIN last'.calls :
                last'.calls[i].api = "update_booking" =>
                    MergedFromRequest(last'.calls[i].data,
                                      BookingWithId(remote_bookings, last'.calls[i].id),
                                      last') ]_vars

(***************************************************************************)
(* The create_customer tool (SpecCreateCustomer).                          *)
(***************************************************************************)
\* the cached customers with the non-empty email or phone of the payload
CachedWithEmailOrPhone(tr, payload) ==
    IF tr.get_customer_profile.present
    THEN { k \in DOMAIN tr.get_customer_profile.customers :
             \/ /\ Truthy(payload.email)
                /\ tr.get_customer_profile.customers[k].email = payload.email
             \/ /\ Truthy(payload.phone)
                /\ tr.get_customer_profile.customers[k].phone = payload.phone }
    ELSE {}

\* a list of customers holds one with the id `id`
HoldsCustomer(customers, id) ==
    \E k \in DOMAIN customers : customers[k].id = id

\* C37: create_customer issues no remote call, returns a cached record
\* marked from_cache and leaves the state unchanged whenever the cached
\* customer list holds a customer with the non-empty email or phone of the
\* payload; after a successful remote create the cached customer list of
\* the session holds the new customer.
C37_CachedOrCreatedAndCached ==
    [][ last'.op = "create_customer" =>
            LET hits == CachedWithEmailOrPhone(tool_results, last'.args)
            IN  /\ hits # {} =>
                       /\ last'.calls = <<>>
                       /\ last'.status = "from_cache"
                       /\ tool_results' = tool_results
                       /\ \E k \in hits :
                              tool_results.get_customer_profile.customers[k].id
                                  = last'.customer_id
                /\ last'.status = "success" =>
                       /\ tool_results'.get_customer_profile.present
                       /\ HoldsCustomer(tool_results'.get_customer_profile.customers,
                                        last'.customer_id) ]_vars

(***************************************************************************)
(* match_customer by name alone (SpecMatchCustomer).                       *)
(***************************************************************************)
\* match_customer was called with a name and neither email nor phone
NameOnlyCall ==
    /\ last.op = "match_customer"
    /\ last.args.name # <<>>
    /\ ~Truthy(last.args.email)
    /\ ~Truthy(last.args.phone)

\* the candidate has a name, and it and the given name contain one another
NamedAndRelated(customer, name) ==
    /\ customer_name_of(customer) # <<>>
    /\ \/ IsSubstring(lower_words(name), customer_name_of(customer))
       \/ IsSubstring(customer_name_of(customer), lower_words(name))

\* C40: called with a name only, match_customer returns no candidate whose
\* stored first and last name are both empty, and returns None when no
\* candidate has a non-empty name in a substring relation with the name.
C40_NoMatchOnEmptyStoredName ==
    NameOnlyCall =>
        /\ \A k \in DOMAIN remote_customers :
               remote_customers[k].id = last.customer_id =>
                   customer_name_of(remote_customers[k]) # <<>>
        /\ (\A k \in DOMAIN remote_customers :
                ~NamedAndRelated(remote_customers[k], last.args.name))
               => last.customer_id = NoneStr

(***************************************************************************)
(* The pet ids returned by ensure_pets_exist (SpecPets).                   *)
(***************************************************************************)
\* the requested pets that have a name
NamedPets(pets_data) ==
    {i \in DOMAIN pets_data : Truthy(pets_data[i].name)}

\* C39: a successful ensure_pets_exist call (found, created or updated)
\* returns exactly one pet id for each requested named pet and no id
\* twice, also when some pets were matched and others created or updated
\* in the same call.  pet_names and pet_species are appended together with
\* pet_ids and have its length.
C39_OneIdPerRequestedPet ==
    (/\ last.op = "ensure_pets_exist"
     /\ last.status \in {"found", "created", "updated"})
        => /\ Len(last.result_pet_ids) = Cardinality(NamedPets(last.args))
           /\ \A i, j \in DOMAIN last.result_pet_ids :
                  i # j => last.result_pet_ids[i] # last.result_pet_ids[j]

(***************************************************************************)
(* The tools that take their argument as JSON text.  A text is modelled by *)
(* whether json.loads accepts it and by the object it carries; a truncated *)
(* text is the text of an object cut before its end, which json.loads      *)
(* rejects with an exception that the tool's except clause catches.        *)
(***************************************************************************)
JsonText(value) == [parses |-> TRUE, value |-> value]
Truncated(value) == [parses |-> FALSE, value |-> value]

\* a mutant of json_parses: json.loads accepts every text
json_parses_always(payload_json) == TRUE

\* whether json.loads(payload_json) returns
json_parses(payload_json) == payload_json.parses

\* the outcome of a tool whose first statement raised: no call, state and
\* remote store as they were, {"success": False, "error": ...}
raised_outcome(tr, remote) ==
    [tr |-> tr, remote |-> remote, success |-> FALSE, calls |-> <<>>]

\* the outcome of a booking tool that issued its one call
booking_outcome(r, api, ok, id) ==
    [tr |-> r.tr, remote |-> r.remote, success |-> r.success,
     calls |-> <<Call(api, ok, id, r.sent)>>]

customer_outcome(r) ==
    [tr |-> r.tr, remote |-> r.remote, success |-> r.success, calls |-> r.calls]

\* create_customer(customer_data_json, tool_context)
create_customer_tool(tr, remote, customer_data_json, ok) ==
    IF json_parses(customer_data_json)
    THEN customer_outcome(create_customer(tr, remote, customer_data_json.value, ok))
    ELSE raised_outcome(tr, remote)

\* create_booking(booking_data_json, tool_context)
create_booking_tool(tr, remote, booking_data_json, ok) ==
    IF json_parses(booking_data_json)
    THEN booking_outcome(create_booking(tr, remote, booking_data_json.value, ok),
                         "create_booking", ok, Len(remote) + 1)
    ELSE raised_outcome(tr, remote)

\* update_booking(booking_id, booking_data_json, tool_context)
update_booking_tool(tr, remote, booking_id, booking_data_json, ok) ==
    IF json_parses(booking_data_json)
    THEN booking_outcome(update_booking(tr, remote, booking_id,
                                        booking_data_json.value, ok),
                         "update_booking", ok, booking_id)
    ELSE raised_outcome(tr, remote)

\* ensure_pets_exist(tool_context, pets_info): the except clause answers
\* with status "error" and empty lists
ensure_pets_exist_tool(tr, remote, pets_info, fuzzy, ok) ==
    IF json_parses(pets_info)
    THEN ensure_pets_exist(tr, remote, pets_info.value, fuzzy, ok)
    ELSE [tr |-> tr, remote |-> remote,
          last |-> [NoLast EXCEPT !.op = "ensure_pets_exist", !.status = "error"]]

\* the texts handed to the tools: a well-formed one and truncated ones
CustomerTexts ==
    { JsonText(customer_data(<<"carol", "jones">>, "c@x", "999")),
      Truncated(customer_data(<<"carol", "jones">>, "c@x", "999")) }

BookingTexts ==
    { JsonText(Booking(NoId, "c1", "s1", "r1", FirstRequestDay, FirstRequestDay,
                       NoneStr, NoneStr, NoneStr, {"p1"}, "")),
      Truncated(Booking(NoId, "c1", "s1", "r1", FirstRequestDay, FirstRequestDay,
                        NoneStr, NoneStr, NoneStr, {"p1"}, "")) }

UpdateTexts ==
    { JsonText(Booking(NoId, NoneStr, NoneStr, NoneStr, NoDate, NoDate,
                       NoneStr, NoneStr, NoneStr, {}, "n1")),
      Truncated(Booking(NoId, NoneStr, NoneStr, NoneStr, NoDate, NoDate,
                        NoneStr, NoneStr, NoneStr, {}, "n1")) }

PetTexts ==
    { JsonText(<<PetInfo("Rex", "boxer", NoneStr)>>),
      Truncated(<<PetInfo("Rex", "boxer", NoneStr)>>) }

InitJson ==
    /\ remote_bookings =
           <<Booking(1, "c1", "s1", "r1", FirstRequestDay, FirstRequestDay,
                     NoneStr, NoneStr, "scheduled", {"p1"}, "n0")>>
    /\ remote_customers \in InitPetCustomers
    /\ tool_results = EmptyState
    /\ last = NoLast
    /\ HAS_FUZZY_MATCHING = TRUE

ToolStatus(success) == IF success THEN "success" ELSE "error"

CreateCustomerJson ==
    \E customer_data_json \in CustomerTexts, ok \in BOOLEAN :
        \E r \in {create_customer_tool(tool_results, remote_customers,
                                       customer_data_json, ok)} :
            /\ Len(r.remote) <= MaxCustomers
            /\ OutcomeOfIssuedCall(r.calls, "create_customer", ok)
            /\ tool_results' = r.tr
            /\ remote_customers' = r.remote
            /\ last' = [NoLast EXCEPT !.op = "create_customer",
                            !.args = customer_data_json,
                            !.calls = r.calls,
                            !.status = ToolStatus(r.success)]
            /\ UNCHANGED <<HAS_FUZZY_MATCHING, remote_bookings>>

CreateBookingJson ==
    \E booking_data_json \in BookingTexts, ok \in BOOLEAN :
        \E r \in {create_booking_tool(tool_results, remote_bookings,
                                      booking_data_json, ok)} :
            /\ Len(r.remote) <= MaxBookings
            /\ OutcomeOfIssuedCall(r.calls, "create_booking", ok)
            /\ tool_results' = r.tr
            /\ remote_bookings' = r.remote
            /\ last' = [NoLast EXCEPT !.op = "create_booking",
                            !.args = booking_data_json,
                            !.calls = r.calls,
                            !.status = ToolStatus(r.success)]
            /\ UNCHANGED <<HAS_FUZZY_MATCHING, remote_customers>>

UpdateBookingJson ==
    \E booking_data_json \in UpdateTexts, ok \in BOOLEAN :
        \E r \in {update_booking_tool(tool_results, remote_bookings, 1,
                                      booking_data_json, ok)} :
            /\ OutcomeOfIssuedCall(r.calls, "update_booking", ok)
            /\ tool_results' = r.tr
            /\ remote_bookings' = r.remote
            /\ last' = [NoLast EXCEPT !.op = "update_booking",
                            !.args = booking_data_json,
                            !.calls = r.calls,
                            !.status = ToolStatus(r.success)]
            /\ UNCHANGED <<HAS_FUZZY_MATCHING, remote_customers>>

EnsurePetsExistJson ==
    \E pets_info \in PetTexts, ok \in BOOLEAN :
        \E r \in {ensure_pets_exist_tool(tool_results, remote_customers, pets_info,
                                         HAS_FUZZY_MATCHING, ok)} :
            /\ Cardinality(UsedPetIds(r.remote)) <= MaxPets
            /\ OutcomeOfIssuedCall(r.last.calls, "create_pet_profiles", ok)
            /\ tool_results' = r.tr
            /\ remote_customers' = r.remote
            /\ last' = [r.last EXCEPT !.args = pets_info]
            /\ UNCHANGED <<HAS_FUZZY_MATCHING, remote_bookings>>

NextJson ==
    \/ NewSession
    \/ GetCustomerProfile
    \/ GetBookings
    \/ CreateCustomerJson
    \/ CreateBookingJson
    \/ UpdateBookingJson
    \/ EnsurePetsExistJson

SpecJson == InitJson /\ [][NextJson]_vars

\* the tools that parse a JSON argument
JsonTools == {"create_customer", "create_booking", "update_booking", "ensure_pets_exist"}

\* C35: a tool handed a text that json.loads rejects answers with an error
\* result, issues no remote call and leaves the session state and the
\* remote stores as they were
C35_UnparseableIsErrorWithoutEffect ==
    [][ (last'.op \in JsonTools /\ ~last'.args.parses)
        => /\ last'.status = "error"
           /\ last'.calls = <<>>
           /\ tool_results' = tool_results
           /\ remote_bookings' = remote_bookings
           /\ remote_customers' = remote_customers ]_vars

\* ensure_pets_exist has answered a truncated text in a session whose state
\* holds customers and bookings
C35_Witness ==
    /\ last.op = "ensure_pets_exist"
    /\ ~last.args.parses
    /\ last.status = "error"
    /\ tool_results.get_customer_profile.present
    /\ tool_results.get_customer_profile.customers # <<>>
    /\ tool_results.get_bookings.present
    /\ tool_results.get_bookings.full_response # <<>>

\* the keys of state["tool_results"]
StateKeys(tr) == {k \in DOMAIN tr : tr[k].present}

\* C34: a tool call never removes an entry of the session's tool_results:
\* the keys present before the call are present after it, whatever the
\* status the call ends with
C34_ToolsKeepStateEntries ==
    [][ last'.op # "create_session_with_state"
        => StateKeys(tool_results) \subseteq StateKeys(tool_results') ]_vars

\* a call has ended in error in a session that holds customers, bookings
\* and a matched service
C34_Witness ==
    /\ last.op = "ensure_booking_exists"
    /\ last.status = "error"
    /\ {"get_customer_profile", "get_bookings", "service_result"}
           \subseteq StateKeys(tool_results)

(***************************************************************************)
(* The booking workflow: booking_sequential_agent runs its sub_agents one  *)
(* after the other, each to completion, in the order of the list.  A stage *)
(* runs its stage operation (ensure_customer_exists, ensure_pets_exist,    *)
(* ensure_service_matched, ensure_booking_exists); the date stage has no   *)
(* tool and hands its dates to the booking stage.  last.run is the         *)
(* position of the run.                                                    *)
(***************************************************************************)
\* a mutant of sub_agents: the pet agent stands before the customer agent
sub_agents_pet_first ==
    <<"pet_agent", "customer_agent", "service_agent", "date_calculation_agent",
      "booking_creation_agent">>

sub_agents ==
    <<"customer_agent", "pet_agent", "service_agent", "date_calculation_agent",
      "booking_creation_agent">>

StageActive(run) == Len(run.started) > Len(run.completed)

RunCompleted(run) == Len(run.completed) = Len(sub_agents)

\* the agent whose turn it is
NextAgent(run) == sub_agents[Len(run.completed) + 1]

\* the stage of this agent has started and not completed
Active(agent) ==
    /\ StageActive(last.run)
    /\ last.run.started[Len(last.run.started)] = agent

Completed(run, agent, calls, status) ==
    [run EXCEPT !.completed = Append(@, agent),
                !.calls = @ \o calls,
                !.statuses = Append(@, status)]

\* the customers, pets and dates a run may be asked for
WorkflowCustomers ==
    { CustomerRequest(<<"carol", "jones">>, NoneStr, NoneStr),
      CustomerRequest(<<"owner">>, NoneStr, NoneStr) }

WorkflowPets ==
    { <<PetInfo("Bella", "poodle", NoneStr), PetInfo("Max", "lab", NoneStr)>>,
      <<PetInfo("Bella", "poodle", NoneStr)>> }

WorkflowServices == {"pet sitting", "house cleaning"}

WorkflowRequests ==
    { Request(FirstRequestDay, LastRequestDay, "08:00", "18:00", "n1", "next weekend"),
      Request(NoDate, NoDate, NoneStr, NoneStr, NoneStr, "tomorrow") }

InitWorkflow ==
    /\ remote_bookings = <<>>
    /\ remote_customers = <<>>
    /\ tool_results = EmptyState
    /\ last = NoLast
    /\ HAS_FUZZY_MATCHING = TRUE

\* the sequential agent starts the next sub-agent when none is running
StartStage ==
    /\ ~StageActive(last.run)
    /\ ~RunCompleted(last.run)
    /\ last' = [last EXCEPT
                   !.run.started = Append(@, NextAgent(last.run)),
                   !.run.fresh = IF last.run.started = <<>>
                                 THEN /\ tool_results = EmptyState
                                      /\ remote_customers = <<>>
                                      /\ remote_bookings = <<>>
                                 ELSE @]
    /\ UNCHANGED <<HAS_FUZZY_MATCHING, remote_bookings, remote_customers,
                   tool_results>>

CustomerStage ==
    /\ Active("customer_agent")
    /\ \E args \in WorkflowCustomers, okList \in BOOLEAN, okCreate \in BOOLEAN :
        \E r \in {ensure_customer_exists(tool_results, remote_customers, args.name,
                                         args.email, args.phone, okList, okCreate)} :
            /\ Len(r.remote) <= MaxCustomers
            /\ OutcomeOfIssuedCall(r.last.calls, "get_customer_profile", okList)
            /\ OutcomeOfIssuedCall(r.last.calls, "create_customer", okCreate)
            /\ tool_results' = r.tr
            /\ remote_customers' = r.remote
            /\ last' = [r.last EXCEPT
                           !.run = [Completed(last.run, "customer_agent",
                                              r.last.calls, r.last.status)
                                        EXCEPT !.customer = r.last.customer_id]]
            /\ UNCHANGED <<HAS_FUZZY_MATCHING, remote_bookings>>

PetStage ==
    /\ Active("pet_agent")
    /\ \E pets_data \in WorkflowPets, ok \in BOOLEAN :
        \E r \in {ensure_pets_exist(tool_results, remote_customers, pets_data,
                                    HAS_FUZZY_MATCHING, ok)} :
            /\ Cardinality(UsedPetIds(r.remote)) <= MaxPets
            /\ OutcomeOfIssuedCall(r.last.calls, "create_pet_profiles", ok)
            /\ tool_results' = r.tr
            /\ remote_customers' = r.remote
            /\ last' = [r.last EXCEPT
                           !.run = [Completed(last.run, "pet_agent",
                                              r.last.calls, r.last.status)
                                        EXCEPT !.pets = pets_data]]
            /\ UNCHANGED <<HAS_FUZZY_MATCHING, remote_bookings>>

ServiceStage ==
    /\ Active("service_agent")
    /\ \E service_request \in WorkflowServices, ok \in BOOLEAN :
        \E r \in {ensure_service_matched(tool_results, service_request, ok)} :
            /\ tool_results' = r.tr
            /\ last' = [r.last EXCEPT
                           !.run = Completed(last.run, "service_agent",
                                             r.last.calls, r.last.status)]
            /\ UNCHANGED <<HAS_FUZZY_MATCHING, remote_bookings, remote_customers>>

\* the date stage calls no tool; its dates are the booking stage's arguments
DateStage ==
    /\ Active("date_calculation_agent")
    /\ \E args \in WorkflowRequests :
        last' = [NoLast EXCEPT
                    !.op = "date_calculation_agent",
                    !.run = [Completed(last.run, "date_calculation_agent",
                                       <<>>, "success")
                                 EXCEPT !.request = args]]
    /\ UNCHANGED <<HAS_FUZZY_MATCHING, remote_bookings, remote_customers,
                   tool_results>>

BookingStage ==
    /\ Active("booking_creation_agent")
    /\ \E okFetch \in BOOLEAN, okUpdate \in BOOLEAN, okCreate \in BOOLEAN :
        \E r \in {ensure_booking_exists(tool_results, remote_bookings,
                                       last.run.request, okFetch, okUpdate,
                                       okCreate)} :
            /\ Len(r.remote) <= MaxBookings
            /\ OutcomesOfIssuedCalls(r.last.calls, okFetch, okUpdate, okCreate)
            /\ tool_results' = r.tr
            /\ remote_bookings' = r.remote
            /\ last' = [r.last EXCEPT
                           !.run = Completed(last.run, "booking_creation_agent",
                                             r.last.calls, r.last.status)]
            /\ UNCHANGED <<HAS_FUZZY_MATCHING, remote_customers>>

\* the next turn of the conversation runs the workflow again, in the same
\* session
NextTurn ==
    /\ RunCompleted(last.run)
    /\ last' = [NoLast EXCEPT !.op = "booking_sequential_agent"]
    /\ UNCHANGED <<HAS_FUZZY_MATCHING, remote_bookings, remote_customers,
                   tool_results>>

NextWorkflow ==
    \/ StartStage
    \/ CustomerStage
    \/ PetStage
    \/ ServiceStage
    \/ DateStage
    \/ BookingStage
    \/ NextTurn

SpecWorkflow == InitWorkflow /\ [][NextWorkflow]_vars

\* the order of the stages of the booking workflow
StageOrder ==
    <<"customer_agent", "pet_agent", "service_agent", "date_calculation_agent",
      "booking_creation_agent">>

IsPrefix(s, t) == Len(s) <= Len(t) /\ s = SubSeq(t, 1, Len(s))

CallsTo(run, api) == Cardinality({i \in DOMAIN run.calls : run.calls[i].api = api})

\* a completed run that started on an empty session state and an empty
\* remote store, asked for two pets, matched a service with a rate, and
\* whose remote calls all succeeded
FirstBookingRun ==
    /\ RunCompleted(last.run)
    /\ last.run.fresh
    /\ \A i \in DOMAIN last.run.calls : last.run.calls[i].ok
    /\ Len(last.run.pets) = 2
    /\ tool_results.service_result.present
    /\ tool_results.service_result.service_rate_id # NoneStr

\* C32: such a run issues one create-customer call, one upsert that creates
\* the two pets, one create-booking call for a booking of exactly the two
\* new pets, and no update-booking call
C32_FirstBookingCreatesAll ==
    FirstBookingRun =>
        /\ CallsTo(last.run, "create_customer") = 1
        /\ CallsTo(last.run, "create_pet_profiles") = 1
        /\ CallsTo(last.run, "create_booking") = 1
        /\ CallsTo(last.run, "update_booking") = 0
        /\ Len(remote_customers) = 1
        /\ Len(remote_customers[1].pets) = 2
        /\ Len(remote_bookings) = 1
        /\ remote_bookings[1].clientId = remote_customers[1].id
        /\ remote_bookings[1].bookingPets = UsedPetIds(remote_customers)
        /\ \A i \in DOMAIN last.run.calls :
               last.run.calls[i].api = "create_booking"
                   => last.run.calls[i].data.bookingPets = UsedPetIds(remote_customers)

C32_Witness ==
    /\ FirstBookingRun
    /\ last.action_taken = "created"
    /\ Cardinality(UsedPetIds(remote_customers)) = 2

====
